---- MODULE Spec2Model ----
(***************************************************************************)
(* Reading-progress store (database.py) and the command handlers that      *)
(* drive it (main.py) of the Discord book bot.                              *)
(*                                                                         *)
(* The three tables are sequences of rows; a row's id is its position      *)
(* (AUTOINCREMENT, rows are never deleted).  For users the position stands *)
(* for the id: SQLite spends an AUTOINCREMENT value on every upsert that   *)
(* meets the conflict, so the ids grow with gaps, and the code only ever   *)
(* compares them for equality.  An SQL NULL / Python None is               *)
(* the empty tuple, a present value v is <<v>>.  Timestamps are the value  *)
(* of a wall clock counted in whole seconds (utc_now_iso drops the         *)
(* microseconds), so two calls in the same second read the same value.     *)
(* ret is the return value or the error of the last call made; sent is the *)
(* log of the messages posted to the milestone channel.  LAST_SEARCH is    *)
(* the per-user cache of search results of main.py, and pending the bag of *)
(* command handlers suspended at an await with work still to do.           *)
(***************************************************************************)
EXTENDS Integers, Sequences, FiniteSets, Bags, TLC

VARIABLES users, books, user_books, now, ret, sent, LAST_SEARCH, pending

vars == <<users, books, user_books, now, ret, sent, LAST_SEARCH, pending>>

-----------------------------------------------------------------------------
(* Bounds of the model *)

MaxTime == 3
MaxPage == 8
MaxPending == 2

-----------------------------------------------------------------------------
(* Optional values *)

None == <<>>
Some(v) == <<v>>
IsNone(x) == x = <<>>
Val(x) == x[1]

\* SQL COALESCE(a, b)
COALESCE(a, b) == IF a # None THEN a ELSE b

-----------------------------------------------------------------------------
(* Program constants: database.py:11-20 *)

STATUS_PLAN == "plan_to_read"
STATUS_READING == "reading"
STATUS_FINISHED == "finished"
STATUS_DNF == "dnf"
STATUS_PAUSED == "paused"

ALLOWED_STATUSES == {STATUS_PLAN, STATUS_READING, STATUS_FINISHED, STATUS_DNF, STATUS_PAUSED}

MILESTONES == <<25, 50, 75, 100>>

-----------------------------------------------------------------------------
(* Python str methods.  A string is a sequence of characters; Head, Tail,  *)
(* SubSeq, Len and \o work on it.                                           *)

Whitespace == {" ", "\t", "\n"}
Digits == "0123456789"
Uppercase == "ABCDEFGHIJKLMNOPQRSTUVWXYZ"
Lowercase == "abcdefghijklmnopqrstuvwxyz"

Char(s, i) == SubSeq(s, i, i)

\* The value of each decimal digit
DigitOf == [c \in {Char(Digits, d + 1) : d \in 0..9} |-> CHOOSE d \in 0..9 : Char(Digits, d + 1) = c]

\* str.lstrip(), str.rstrip(), str.strip()
RECURSIVE lstrip(_)
lstrip(s) == IF s # "" /\ Head(s) \in Whitespace THEN lstrip(Tail(s)) ELSE s

RECURSIVE rstrip(_)
rstrip(s) ==
    IF s # "" /\ Char(s, Len(s)) \in Whitespace THEN rstrip(SubSeq(s, 1, Len(s) - 1)) ELSE s

strip(s) == rstrip(lstrip(s))

\* str.lower()
LowerOf ==
    [c \in {Char(Uppercase, i) : i \in 1..Len(Uppercase)} |->
        Char(Lowercase, CHOOSE i \in 1..Len(Uppercase) : Char(Uppercase, i) = c)]

LowerChar(c) == IF c \in DOMAIN LowerOf THEN LowerOf[c] ELSE c

RECURSIVE lower(_)
lower(s) == IF s = "" THEN "" ELSE LowerChar(Head(s)) \o lower(Tail(s))

\* str.isdigit(), str.endswith(c), "sub in s"
isdigit(s) == s # "" /\ \A i \in 1..Len(s) : Char(s, i) \in DOMAIN DigitOf
endswith(s, c) == s # "" /\ Char(s, Len(s)) = c
Contains(s, sub) ==
    sub = "" \/ \E i \in 1..(Len(s) - Len(sub) + 1) : SubSeq(s, i, i + Len(sub) - 1) = sub

\* s.split(c, 1) of a string that contains c: the parts before and after the
\* first c
SplitOnce(s, c) ==
    LET i == CHOOSE i \in 1..Len(s) : Char(s, i) = c /\ \A j \in 1..(i - 1) : Char(s, j) # c
    IN  <<SubSeq(s, 1, i - 1), SubSeq(s, i + 1, Len(s))>>

\* The value of a string of decimal digits
RECURSIVE DigitsValue(_)
DigitsValue(s) ==
    IF s = "" THEN 0
    ELSE 10 * DigitsValue(SubSeq(s, 1, Len(s) - 1))
         + DigitOf[Char(s, Len(s))]

\* int(s): surrounding whitespace and one sign are accepted; None stands for
\* the ValueError of anything else.  (Underscores between digits and
\* non-ASCII digits are not among the characters of the model.)
int(s) ==
    LET v    == strip(s)
        sign == v # "" /\ Head(v) \in {"+", "-"}
        body == IF sign THEN Tail(v) ELSE v
    IN  IF ~isdigit(body) THEN None
        ELSE IF sign /\ Head(v) = "-" THEN Some(0 - DigitsValue(body))
        ELSE Some(DigitsValue(body))

\* str(n) of an integer: its decimal digits, after a minus sign if negative
RECURSIVE DigitsOf(_)
DigitsOf(n) ==
    IF n < 10 THEN Char(Digits, n + 1)
    ELSE DigitsOf(n \div 10) \o Char(Digits, (n % 10) + 1)

str(n) == IF n < 0 THEN "-" \o DigitsOf(0 - n) ELSE DigitsOf(n)

\* Python truthiness of an Optional[str] / Optional[int]
TruthyStr(x) == x # None /\ Val(x) # ""
TruthyInt(x) == x # None /\ Val(x) # 0

-----------------------------------------------------------------------------
(* Arithmetic of the progress fields *)

\* (mutant) the lower clamp forgotten: min(100, int(p))
ClampPctUpperOnly(p) == IF p > 100 THEN 100 ELSE p

\* max(0, min(100, int(p)))
ClampPct(p) == IF p < 0 THEN 0 ELSE IF p > 100 THEN 100 ELSE p

\* (mutant) int() without round(): the quotient n/d truncated toward zero
PyRoundTruncates(n, d) ==
    LET nn == IF d < 0 THEN -n ELSE n
        dd == IF d < 0 THEN -d ELSE d
    IN  IF nn < 0 THEN 0 - ((0 - nn) \div dd) ELSE nn \div dd

\* Python 3 round() of the quotient n/d (d # 0): nearest integer, a tie goes
\* to the even neighbour.  For the page counts of this model the float
\* (n/d)*100 that the code rounds lies on the same side of every tie as the
\* exact quotient.
PyRound(n, d) ==
    LET nn == IF d < 0 THEN -n ELSE n
        dd == IF d < 0 THEN -d ELSE d
        q  == nn \div dd
        r  == nn - q * dd
    IN  IF 2 * r < dd THEN q
        ELSE IF 2 * r > dd THEN q + 1
        ELSE IF q % 2 = 0 THEN q ELSE q + 1

\* int(round((current_page / total_pages) * 100))
PctOfPages(cp, tp) == PyRound(100 * cp, tp)

-----------------------------------------------------------------------------
(* The messages of the errors the store raises; "" is a normal return *)

InvalidStatus == "Invalid status"
UserNotFound == "User not found."
InvalidInput == "total_pages must be > 0"
NotLinked == "This book is not linked to the user."
IntegrityError == "UNIQUE constraint failed"

-----------------------------------------------------------------------------
(* The store as one value, so that operations compose *)

DB == [users |-> users, books |-> books, user_books |-> user_books]

EmptyDB == [users |-> <<>>, books |-> <<>>, user_books |-> <<>>]

\* utc_now_iso(): the clock, read at second precision
utc_now_iso == now

\* get_user: the id of the row with this discord_user_id, or None
get_user(D, uid) ==
    IF \E i \in 1..Len(D.users) : D.users[i].discord_user_id = uid
    THEN Some(CHOOSE i \in 1..Len(D.users) : D.users[i].discord_user_id = uid)
    ELSE None

\* upsert_user: INSERT ... ON CONFLICT(discord_user_id) DO UPDATE SET
\* display_name = COALESCE(excluded.display_name, users.display_name)
upsert_user(D, uid, display_name, t) ==
    LET u == get_user(D, uid)
    IN  IF u = None
        THEN [db |-> [D EXCEPT !.users = Append(@,
                        [discord_user_id |-> uid, display_name |-> display_name,
                         created_at |-> t])],
              id |-> Len(D.users) + 1]
        ELSE [db |-> [D EXCEPT !.users[Val(u)].display_name = COALESCE(display_name, @)],
              id |-> Val(u)]

\* fetchone() on a set of matching row ids: the lowest, or None
FetchOne(S) == IF S = {} THEN None ELSE Some(CHOOSE i \in S : \A j \in S : i <= j)

\* (mutant) the ISBN-13 looked up before the external id
add_or_get_book_IsbnFirst(D, title0, author, google_volume_id, isbn13, t) ==
    LET title  == strip(title0)
        auth   == IF TruthyStr(author) THEN strip(Val(author)) ELSE ""
        byVol  == IF TruthyStr(google_volume_id)
                  THEN FetchOne({i \in 1..Len(D.books) :
                                    D.books[i].google_volume_id = google_volume_id})
                  ELSE None
        byIsbn == IF TruthyStr(isbn13)
                  THEN FetchOne({i \in 1..Len(D.books) : D.books[i].isbn13 = isbn13})
                  ELSE None
        byName == FetchOne({i \in 1..Len(D.books) :
                     /\ lower(D.books[i].title) = lower(title)
                     /\ lower(Val(COALESCE(D.books[i].author, Some(""))))
                          = lower(Val(COALESCE(Some(auth), Some(""))))})
        clash  == \E i \in 1..Len(D.books) :
                     \/ google_volume_id # None /\ D.books[i].google_volume_id = google_volume_id
                     \/ isbn13 # None /\ D.books[i].isbn13 = isbn13
        row    == [google_volume_id |-> google_volume_id, title |-> title,
                   author |-> IF TruthyStr(author) THEN Some(strip(Val(author))) ELSE None,
                   isbn13 |-> isbn13, created_at |-> t]
    IN  IF byIsbn # None THEN [db |-> D, id |-> Val(byIsbn), err |-> ""]
        ELSE IF byVol # None THEN [db |-> D, id |-> Val(byVol), err |-> ""]
        ELSE IF byName # None THEN [db |-> D, id |-> Val(byName), err |-> ""]
        ELSE IF clash THEN [db |-> D, id |-> 0, err |-> IntegrityError]
        ELSE [db |-> [D EXCEPT !.books = Append(@, row)],
              id |-> Len(D.books) + 1, err |-> ""]

\* (mutant) a call that carries a catalog id is not matched by title and
\* author
add_or_get_book_IdSkipsName(D, title0, author, google_volume_id, isbn13, t) ==
    LET title  == strip(title0)
        auth   == IF TruthyStr(author) THEN strip(Val(author)) ELSE ""
        byVol  == IF TruthyStr(google_volume_id)
                  THEN FetchOne({i \in 1..Len(D.books) :
                                    D.books[i].google_volume_id = google_volume_id})
                  ELSE None
        byIsbn == IF TruthyStr(isbn13)
                  THEN FetchOne({i \in 1..Len(D.books) : D.books[i].isbn13 = isbn13})
                  ELSE None
        byName == IF TruthyStr(google_volume_id) THEN None
                  ELSE FetchOne({i \in 1..Len(D.books) :
                     /\ lower(D.books[i].title) = lower(title)
                     /\ lower(Val(COALESCE(D.books[i].author, Some(""))))
                          = lower(Val(COALESCE(Some(auth), Some(""))))})
        clash  == \E i \in 1..Len(D.books) :
                     \/ google_volume_id # None /\ D.books[i].google_volume_id = google_volume_id
                     \/ isbn13 # None /\ D.books[i].isbn13 = isbn13
        row    == [google_volume_id |-> google_volume_id, title |-> title,
                   author |-> IF TruthyStr(author) THEN Some(strip(Val(author))) ELSE None,
                   isbn13 |-> isbn13, created_at |-> t]
    IN  IF byVol # None THEN [db |-> D, id |-> Val(byVol), err |-> ""]
        ELSE IF byIsbn # None THEN [db |-> D, id |-> Val(byIsbn), err |-> ""]
        ELSE IF byName # None THEN [db |-> D, id |-> Val(byName), err |-> ""]
        ELSE IF clash THEN [db |-> D, id |-> 0, err |-> IntegrityError]
        ELSE [db |-> [D EXCEPT !.books = Append(@, row)],
              id |-> Len(D.books) + 1, err |-> ""]

\* add_or_get_book: external id, then ISBN-13, then lower(title)+lower(author),
\* else insert.  err is the sqlite3.IntegrityError of a UNIQUE violation.
add_or_get_book(D, title0, author, google_volume_id, isbn13, t) ==
    LET title  == strip(title0)
        auth   == IF TruthyStr(author) THEN strip(Val(author)) ELSE ""
        byVol  == IF TruthyStr(google_volume_id)
                  THEN FetchOne({i \in 1..Len(D.books) :
                                    D.books[i].google_volume_id = google_volume_id})
                  ELSE None
        byIsbn == IF TruthyStr(isbn13)
                  THEN FetchOne({i \in 1..Len(D.books) : D.books[i].isbn13 = isbn13})
                  ELSE None
        byName == FetchOne({i \in 1..Len(D.books) :
                     /\ lower(D.books[i].title) = lower(title)
                     /\ lower(Val(COALESCE(D.books[i].author, Some(""))))
                          = lower(Val(COALESCE(Some(auth), Some(""))))})
        clash  == \E i \in 1..Len(D.books) :
                     \/ google_volume_id # None /\ D.books[i].google_volume_id = google_volume_id
                     \/ isbn13 # None /\ D.books[i].isbn13 = isbn13
        row    == [google_volume_id |-> google_volume_id, title |-> title,
                   author |-> IF TruthyStr(author) THEN Some(strip(Val(author))) ELSE None,
                   isbn13 |-> isbn13, created_at |-> t]
    IN  IF byVol # None THEN [db |-> D, id |-> Val(byVol), err |-> ""]
        ELSE IF byIsbn # None THEN [db |-> D, id |-> Val(byIsbn), err |-> ""]
        ELSE IF byName # None THEN [db |-> D, id |-> Val(byName), err |-> ""]
        ELSE IF clash THEN [db |-> D, id |-> 0, err |-> IntegrityError]
        ELSE [db |-> [D EXCEPT !.books = Append(@, row)],
              id |-> Len(D.books) + 1, err |-> ""]

\* (mutant) the link looked up by book alone
LinkRowsAnyUser(D, user_id, book_id) ==
    {i \in 1..Len(D.user_books) : D.user_books[i].book_id = book_id}

\* The positions of the user_books rows of (user_id, book_id)
LinkRows(D, user_id, book_id) ==
    {i \in 1..Len(D.user_books) :
        D.user_books[i].user_id = user_id /\ D.user_books[i].book_id = book_id}

\* UPDATE user_books SET ... WHERE user_id=? AND book_id=?  (new[i] is the
\* row the SET clause makes of row i)
UpdateLinks(D, user_id, book_id, new) ==
    [D EXCEPT !.user_books =
        [i \in 1..Len(D.user_books) |->
            IF i \in LinkRows(D, user_id, book_id) THEN new[i] ELSE D.user_books[i]]]

-----------------------------------------------------------------------------
Result(D, e, v) == [db |-> D, err |-> e, val |-> v]

-----------------------------------------------------------------------------
(* User-books *)

\* (mutant) re-adding a book starts its milestones over
RelinkRowResetsMilestone(row, status, progress_pct, current_page, total_pages, started_at, finished_at, t) ==
    [row EXCEPT !.status = status,
                !.progress_pct = progress_pct,
                !.current_page = COALESCE(current_page, @),
                !.total_pages = COALESCE(total_pages, @),
                !.started_at = COALESCE(started_at, @),
                !.finished_at = COALESCE(finished_at, @),
                !.last_milestone = 0,
                !.updated_at = t]

\* (mutant) the pages bound without COALESCE: a re-add without pages erases
\* the stored ones
RelinkRowErasesPages(row, status, progress_pct, current_page, total_pages, started_at, finished_at, t) ==
    [row EXCEPT !.status = status,
                !.progress_pct = progress_pct,
                !.current_page = current_page,
                !.total_pages = total_pages,
                !.started_at = COALESCE(started_at, @),
                !.finished_at = COALESCE(finished_at, @),
                !.updated_at = t]

\* The UPDATE of add_book_to_user on an existing link (database.py:262-285)
RelinkRow(row, status, progress_pct, current_page, total_pages, started_at, finished_at, t) ==
    [row EXCEPT !.status = status,
                !.progress_pct = progress_pct,
                !.current_page = COALESCE(current_page, @),
                !.total_pages = COALESCE(total_pages, @),
                !.started_at = COALESCE(started_at, @),
                !.finished_at = COALESCE(finished_at, @),
                !.updated_at = t]

\* The INSERT of add_book_to_user (database.py:288-307)
NewLinkRow(user_id, book_id, status, progress_pct, current_page, total_pages, started_at, finished_at, t) ==
    [user_id |-> user_id, book_id |-> book_id, status |-> status,
     progress_pct |-> progress_pct, current_page |-> current_page,
     total_pages |-> total_pages, started_at |-> started_at,
     finished_at |-> finished_at, last_milestone |-> 0,
     created_at |-> t, updated_at |-> t]

\* add_book_to_user: returns (user_id, book_id, created).  upsert_user and
\* add_or_get_book each commit in a connection of their own before the link
\* is looked up.
add_book_to_user(D, t, uid, title, author, status0, progress_pct0, current_page, total_pages, google_volume_id, isbn13) ==
    LET status       == lower(strip(status0))
        progress_pct == ClampPct(progress_pct0)
        U            == upsert_user(D, uid, None, t)
        B            == add_or_get_book(U.db, title, author, google_volume_id, isbn13, t)
        started_at   == IF status = STATUS_READING THEN Some(t) ELSE None
        finished_at  == IF status = STATUS_FINISHED THEN Some(t) ELSE None
        existing     == LinkRows(B.db, U.id, B.id) # {}
    IN  IF status \notin ALLOWED_STATUSES THEN Result(D, InvalidStatus, <<>>)
        ELSE IF B.err # "" THEN Result(B.db, B.err, <<>>)
        ELSE IF existing
        THEN Result(UpdateLinks(B.db, U.id, B.id,
                        [i \in LinkRows(B.db, U.id, B.id) |->
                            RelinkRow(B.db.user_books[i], status, progress_pct, current_page,
                                      total_pages, started_at, finished_at, t)]),
                    "", <<U.id, B.id, FALSE>>)
        ELSE Result([B.db EXCEPT !.user_books = Append(@,
                        NewLinkRow(U.id, B.id, status, progress_pct, current_page,
                                   total_pages, started_at, finished_at, t))],
                    "", <<U.id, B.id, TRUE>>)

\* get_user_book_link: the link row joined with its book, or None
get_user_book_link(D, uid, book_id) ==
    LET u == get_user(D, uid)
    IN  IF u = None THEN None
        ELSE IF LinkRows(D, Val(u), book_id) = {} \/ book_id \notin 1..Len(D.books) THEN None
        ELSE LET i == CHOOSE i \in LinkRows(D, Val(u), book_id) : TRUE
                 r == D.user_books[i]
             IN  Some([book_id |-> r.book_id, status |-> r.status,
                       progress_pct |-> r.progress_pct, current_page |-> r.current_page,
                       total_pages |-> r.total_pages, started_at |-> r.started_at,
                       finished_at |-> r.finished_at, last_milestone |-> r.last_milestone,
                       updated_at |-> r.updated_at,
                       title |-> D.books[book_id].title, author |-> D.books[book_id].author])

\* (mutant) ORDER BY ub.updated_at ASC: the oldest update first
RECURSIVE OrderByUpdatedOldestFirst(_, _, _)
OrderByUpdatedOldestFirst(D, S, tie) ==
    IF S = {} THEN <<>>
    ELSE LET first == CHOOSE i \in S : \A j \in S :
                         \/ D.user_books[i].updated_at < D.user_books[j].updated_at
                         \/ /\ D.user_books[i].updated_at = D.user_books[j].updated_at
                            /\ IF tie = "rowid_asc" THEN i <= j ELSE i >= j
         IN  <<first>> \o OrderByUpdatedOldestFirst(D, S \ {first}, tie)

\* ORDER BY ub.updated_at DESC over the rows S.  SQL leaves the order of rows
\* with equal updated_at open; tie says whether the plan yields them by
\* ascending or by descending rowid.
RECURSIVE OrderByUpdated(_, _, _)
OrderByUpdated(D, S, tie) ==
    IF S = {} THEN <<>>
    ELSE LET first == CHOOSE i \in S : \A j \in S :
                         \/ D.user_books[i].updated_at > D.user_books[j].updated_at
                         \/ /\ D.user_books[i].updated_at = D.user_books[j].updated_at
                            /\ IF tie = "rowid_asc" THEN i <= j ELSE i >= j
         IN  <<first>> \o OrderByUpdated(D, S \ {first}, tie)

\* One row of list_user_books: the link joined with its book
ListedRow(D, i) ==
    LET r == D.user_books[i]
    IN  [book_id |-> r.book_id, status |-> r.status,
         progress_pct |-> r.progress_pct, current_page |-> r.current_page,
         total_pages |-> r.total_pages, started_at |-> r.started_at,
         finished_at |-> r.finished_at, last_milestone |-> r.last_milestone,
         updated_at |-> r.updated_at,
         title |-> D.books[r.book_id].title, author |-> D.books[r.book_id].author]

\* (mutant) the status filter validated before the user is looked up
list_user_books_StatusFirst(D, uid, status, limit, tie) ==
    LET u    == get_user(D, uid)
        st   == lower(strip(Val(status)))
        S    == {i \in 1..Len(D.user_books) :
                    /\ D.user_books[i].user_id = Val(u)
                    /\ D.user_books[i].book_id \in 1..Len(D.books)
                    /\ TruthyStr(status) => D.user_books[i].status = st}
        rows == OrderByUpdated(D, S, tie)
        n    == IF limit < 0 \/ limit > Len(rows) THEN Len(rows) ELSE limit
    IN  IF TruthyStr(status) /\ st \notin ALLOWED_STATUSES
        THEN [err |-> InvalidStatus, val |-> <<>>]
        ELSE IF u = None THEN [err |-> "", val |-> <<>>]
        ELSE [err |-> "", val |-> [k \in 1..n |-> ListedRow(D, rows[k])]]

\* list_user_books: the user's links, of one status when status is truthy,
\* most recently updated first, at most limit of them
list_user_books(D, uid, status, limit, tie) ==
    LET u    == get_user(D, uid)
        st   == lower(strip(Val(status)))
        S    == {i \in 1..Len(D.user_books) :
                    /\ D.user_books[i].user_id = Val(u)
                    /\ D.user_books[i].book_id \in 1..Len(D.books)
                    /\ TruthyStr(status) => D.user_books[i].status = st}
        rows == OrderByUpdated(D, S, tie)
        n    == IF limit < 0 \/ limit > Len(rows) THEN Len(rows) ELSE limit
    IN  IF u = None THEN [err |-> "", val |-> <<>>]
        ELSE IF TruthyStr(status) /\ st \notin ALLOWED_STATUSES
        THEN [err |-> InvalidStatus, val |-> <<>>]
        ELSE [err |-> "", val |-> [k \in 1..n |-> ListedRow(D, rows[k])]]

\* (mutant) "if not progress_pct" for "if progress_pct is None": a percent of 0
\* counts as omitted
DerivedPctFalsy(progress_pct, current_page, total_pages) ==
    LET p == IF ~TruthyInt(progress_pct) /\ current_page # None /\ TruthyInt(total_pages)
             THEN Some(PctOfPages(Val(current_page), Val(total_pages)))
             ELSE progress_pct
    IN  IF p # None THEN Some(ClampPct(Val(p))) ELSE None

\* The percent update_user_book_progress writes: derived from the pages when
\* it is omitted and both pages are given, then clamped (database.py:383-390)
DerivedPct(progress_pct, current_page, total_pages) ==
    LET p == IF progress_pct = None /\ current_page # None /\ TruthyInt(total_pages)
             THEN Some(PctOfPages(Val(current_page), Val(total_pages)))
             ELSE progress_pct
    IN  IF p # None THEN Some(ClampPct(Val(p))) ELSE None

\* The guard of the total_pages check (database.py:384-386)
RejectsTotal(progress_pct, current_page, total_pages) ==
    /\ progress_pct = None /\ current_page # None /\ TruthyInt(total_pages)
    /\ Val(total_pages) <= 0

\* (mutant) current_page bound without COALESCE: an omitted page erases the stored one
ProgressRowNoCoalesce(row, progress_pct, current_page, total_pages, t) ==
    [row EXCEPT !.progress_pct = Val(COALESCE(progress_pct, Some(@))),
                !.current_page = current_page,
                !.total_pages = COALESCE(total_pages, @),
                !.updated_at = t]

\* The UPDATE of update_user_book_progress (database.py:400-410)
ProgressRow(row, progress_pct, current_page, total_pages, t) ==
    [row EXCEPT !.progress_pct = Val(COALESCE(progress_pct, Some(@))),
                !.current_page = COALESCE(current_page, @),
                !.total_pages = COALESCE(total_pages, @),
                !.updated_at = t]

\* (mutant) the existence check of the link left out
ProgressErrorNoLinkCheck(D, uid, book_id, progress_pct, current_page, total_pages) ==
    IF get_user(D, uid) = None THEN UserNotFound
    ELSE IF RejectsTotal(progress_pct, current_page, total_pages) THEN InvalidInput
    ELSE ""

\* The error update_user_book_progress raises, in the order of its checks, or
\* "" when it goes on to the UPDATE (database.py:377-398)
ProgressError(D, uid, book_id, progress_pct, current_page, total_pages) ==
    IF get_user(D, uid) = None THEN UserNotFound
    ELSE IF RejectsTotal(progress_pct, current_page, total_pages) THEN InvalidInput
    ELSE IF LinkRows(D, Val(get_user(D, uid)), book_id) = {} THEN NotLinked
    ELSE ""

update_user_book_progress(D, t, uid, book_id, progress_pct, current_page, total_pages) ==
    LET e == ProgressError(D, uid, book_id, progress_pct, current_page, total_pages)
        u == get_user(D, uid)
    IN  IF e # "" THEN Result(D, e, <<>>)
        ELSE Result(UpdateLinks(D, Val(u), book_id,
                        [i \in LinkRows(D, Val(u), book_id) |->
                            ProgressRow(D.user_books[i],
                                        DerivedPct(progress_pct, current_page, total_pages),
                                        current_page, total_pages, t)]),
                    "", <<>>)

\* (mutant) the stored timestamp is not preserved
KeepStampNever(wanted, stored) == wanted

\* The timestamp update_user_book_status binds for one column: now when the
\* new status calls for it, replaced by the stored value when there is one
\* (database.py:429-444)
KeepStamp(wanted, stored) == IF stored # None /\ wanted # None THEN stored ELSE wanted

\* The UPDATE of update_user_book_status (database.py:446-456)
StatusRow(row, status, t) ==
    LET started_at  == KeepStamp(IF status = STATUS_READING THEN Some(t) ELSE None,
                                 row.started_at)
        finished_at == KeepStamp(IF status = STATUS_FINISHED THEN Some(t) ELSE None,
                                 row.finished_at)
    IN  [row EXCEPT !.status = status,
                    !.started_at = COALESCE(started_at, @),
                    !.finished_at = COALESCE(finished_at, @),
                    !.updated_at = t]

update_user_book_status(D, t, uid, book_id, status0) ==
    LET status == lower(strip(status0))
        u      == get_user(D, uid)
    IN  IF status \notin ALLOWED_STATUSES THEN Result(D, InvalidStatus, <<>>)
        ELSE IF u = None THEN Result(D, UserNotFound, <<>>)
        ELSE IF LinkRows(D, Val(u), book_id) = {} THEN Result(D, NotLinked, <<>>)
        ELSE Result(UpdateLinks(D, Val(u), book_id,
                        [i \in LinkRows(D, Val(u), book_id) |->
                            StatusRow(D.user_books[i], status, t)]),
                    "", <<>>)

\* The UPDATE of set_last_milestone (database.py:466-473)
MilestoneRow(row, milestone, t) ==
    [row EXCEPT !.last_milestone = milestone, !.updated_at = t]

\* (mutant) the milestone written to the links of the book of every user
set_last_milestone_AnyUser(D, t, uid, book_id, milestone) ==
    LET u == get_user(D, uid)
    IN  IF u = None THEN Result(D, "", <<>>)
        ELSE Result([D EXCEPT !.user_books =
                        [i \in 1..Len(D.user_books) |->
                            IF D.user_books[i].book_id = book_id
                            THEN MilestoneRow(D.user_books[i], milestone, t)
                            ELSE D.user_books[i]]],
                    "", <<>>)

set_last_milestone(D, t, uid, book_id, milestone) ==
    LET u == get_user(D, uid)
    IN  IF u = None THEN Result(D, "", <<>>)
        ELSE Result(UpdateLinks(D, Val(u), book_id,
                        [i \in LinkRows(D, Val(u), book_id) |->
                            MilestoneRow(D.user_books[i], milestone, t)]),
                    "", <<>>)

\* (mutant) the counts taken from the grouped rows alone, without the
\* zero-filled dict
get_user_profile_summary_NoZeroFill(D, uid) ==
    LET u      == get_user(D, uid)
        mine   == {i \in 1..Len(D.user_books) : D.user_books[i].user_id = Val(u)}
        groups == {D.user_books[i].status : i \in mine}
        c      == [s \in groups |-> Cardinality({i \in mine : D.user_books[i].status = s})]
    IN  IF u = None THEN [exists |-> FALSE, counts |-> None]
        ELSE [exists |-> TRUE, counts |-> Some(c)]

\* get_user_profile_summary: exists and the counts by status.  groups are the
\* rows of the GROUP BY, one for each status the user has a link in; the dict
\* starts with a 0 for every allowed status and takes the count of each group
\* whose status is one of its keys.  (goodreads_url and display_name are left
\* out: they are read from the users row as it is.)
get_user_profile_summary(D, uid) ==
    LET u      == get_user(D, uid)
        mine   == {i \in 1..Len(D.user_books) : D.user_books[i].user_id = Val(u)}
        groups == {D.user_books[i].status : i \in mine}
        c      == [s \in groups |-> Cardinality({i \in mine : D.user_books[i].status = s})]
    IN  IF u = None THEN [exists |-> FALSE, counts |-> None]
        ELSE [exists |-> TRUE,
              counts |-> Some([s \in ALLOWED_STATUSES |-> IF s \in groups THEN c[s] ELSE 0])]

-----------------------------------------------------------------------------
(* Milestones (main.py) *)

\* The elements of a sequence of integers, and the largest of a non-empty set
Range(q) == {q[i] : i \in 1..Len(q)}
Max(S) == CHOOSE m \in S : \A x \in S : x <= m

\* (mutant) "last <= m" for "last < m"
CrossedNonStrict(last, pct) ==
    SelectSeq(MILESTONES, LAMBDA m : last <= m /\ m <= pct)

\* crossed = [m for m in MILESTONES if last < m <= pct]
Crossed(last, pct) ==
    SelectSeq(MILESTONES, LAMBDA m : last < m /\ m <= pct)

\* (mutant) a milestone that can be announced is announced without being
\* recorded
announce_milestone_if_crossed_NotRecorded(D, t, uid, book_id, has_channel) ==
    LET link    == get_user_book_link(D, uid, book_id)
        crossed == Crossed(Val(link).last_milestone, Val(link).progress_pct)
        S       == set_last_milestone(D, t, uid, book_id, Max(Range(crossed)))
    IN  IF link = None THEN Result(D, "", <<<<>>, None>>)
        ELSE IF crossed = <<>> THEN Result(D, "", <<crossed, None>>)
        ELSE IF ~has_channel THEN Result(S.db, "", <<crossed, None>>)
        ELSE Result(D, "", <<crossed, Some(<<uid, book_id, Max(Range(crossed))>>)>>)

\* announce_milestone_if_crossed up to its channel.send: val is the crossed
\* list and the message sent, if any.  has_channel is whether
\* bot.get_channel finds the milestone channel.
announce_milestone_if_crossed(D, t, uid, book_id, has_channel) ==
    LET link    == get_user_book_link(D, uid, book_id)
        crossed == Crossed(Val(link).last_milestone, Val(link).progress_pct)
        S       == set_last_milestone(D, t, uid, book_id, Max(Range(crossed)))
    IN  IF link = None THEN Result(D, "", <<<<>>, None>>)
        ELSE IF crossed = <<>> THEN Result(D, "", <<crossed, None>>)
        ELSE IF ~has_channel THEN Result(S.db, "", <<crossed, None>>)
        ELSE Result(S.db, "", <<crossed, Some(<<uid, book_id, Max(Range(crossed))>>)>>)

-----------------------------------------------------------------------------
(* Commands (main.py).  A handler runs without interruption from one await *)
(* to the next; what it does between two awaits is one step.  A step's     *)
(* outcome is the store it leaves, the exception it raised (err), the      *)
(* reply it sent (val) and, when the handler is suspended with work still  *)
(* to do, that work (next).                                                 *)

Handled(D, e, v, n) == [db |-> D, err |-> e, val |-> v, next |-> n]

\* What a suspended handler still has to do: k names the step, the other
\* fields are the locals it needs
Cont(k, uid, book_id, pct, title, pages) ==
    [k |-> k, uid |-> uid, book_id |-> book_id, pct |-> pct, title |-> title, pages |-> pages]

\* ctx.author.display_name
DisplayName(uid) == IF uid = "u1" THEN "Ann" ELSE "Bob"

\* ensure_user: the store after it
ensure_user(D, uid, t) == upsert_user(D, uid, Some(DisplayName(uid)), t).db

\* Python "a or b" and "if x" on Optional[int]
Or(a, b) == IF TruthyInt(a) THEN a ELSE b

\* The exceptions of the command layer
ValueError == "ValueError"
ClientError == "aiohttp.ClientError"

NoPayload == [progress_pct |-> None, current_page |-> None, total_pages |-> None]

\* parse_progress_value: a missing key of the dict is None
parse_progress_value(value) ==
    LET v    == strip(value)
        pct  == int(strip(SubSeq(v, 1, Len(v) - 1)))
        ab   == SplitOnce(v, "/")
        a    == int(strip(ab[1]))
        b    == int(strip(ab[2]))
        page == int(v)
    IN  IF endswith(v, "%")
        THEN IF pct = None THEN [err |-> ValueError, val |-> NoPayload]
             ELSE [err |-> "", val |-> [NoPayload EXCEPT !.progress_pct = Some(ClampPct(Val(pct)))]]
        ELSE IF Contains(v, "/")
        THEN IF a = None \/ b = None THEN [err |-> ValueError, val |-> NoPayload]
             ELSE IF Val(b) <= 0 THEN [err |-> ValueError, val |-> NoPayload]
             ELSE [err |-> "",
                   val |-> [current_page |-> a, total_pages |-> b,
                            progress_pct |-> Some(ClampPct(PctOfPages(Val(a), Val(b))))]]
        ELSE IF page = None THEN [err |-> ValueError, val |-> NoPayload]
        ELSE [err |-> "", val |-> [NoPayload EXCEPT !.current_page = page]]

\* (mutant) a single reading book is matched against the token like any other
resolve_reading_book_id_NoShortcut(D, uid, which, tie) ==
    LET reading == list_user_books(D, uid, Some(STATUS_READING), 200, tie).val
        every   == list_user_books(D, uid, None, 200, tie).val
        w       == strip(Val(which))
        idx     == Val(int(w))
        q       == lower(w)
        exact   == SelectSeq(reading, LAMBDA b : lower(strip(b.title)) = q)
        partial == SelectSeq(reading, LAMBDA b : Contains(lower(b.title), q))
        broad   == SelectSeq(every, LAMBDA b : Contains(lower(b.title), q))
    IN  IF reading = <<>> THEN None
        ELSE IF ~TruthyStr(which) THEN None
        ELSE IF isdigit(w)
        THEN IF 1 <= idx /\ idx <= Len(reading) THEN Some(reading[idx].book_id) ELSE None
        ELSE IF exact # <<>> THEN Some(exact[1].book_id)
        ELSE IF partial # <<>> THEN Some(partial[1].book_id)
        ELSE None

\* (mutant) the substring match tried before the exact match
resolve_reading_book_id_SubstringFirst(D, uid, which, tie) ==
    LET reading == list_user_books(D, uid, Some(STATUS_READING), 200, tie).val
        every   == list_user_books(D, uid, None, 200, tie).val
        w       == strip(Val(which))
        idx     == Val(int(w))
        q       == lower(w)
        exact   == SelectSeq(reading, LAMBDA b : lower(strip(b.title)) = q)
        partial == SelectSeq(reading, LAMBDA b : Contains(lower(b.title), q))
        broad   == SelectSeq(every, LAMBDA b : Contains(lower(b.title), q))
    IN  IF reading = <<>> THEN None
        ELSE IF Len(reading) = 1 THEN Some(reading[1].book_id)
        ELSE IF ~TruthyStr(which) THEN None
        ELSE IF isdigit(w)
        THEN IF 1 <= idx /\ idx <= Len(reading) THEN Some(reading[idx].book_id) ELSE None
        ELSE IF partial # <<>> THEN Some(partial[1].book_id)
        ELSE IF exact # <<>> THEN Some(exact[1].book_id)
        ELSE None

\* (mutant) a token that matches no reading book is looked for among all the books of the user
resolve_reading_book_id_Broadens(D, uid, which, tie) ==
    LET reading == list_user_books(D, uid, Some(STATUS_READING), 200, tie).val
        every   == list_user_books(D, uid, None, 200, tie).val
        w       == strip(Val(which))
        idx     == Val(int(w))
        q       == lower(w)
        exact   == SelectSeq(reading, LAMBDA b : lower(strip(b.title)) = q)
        partial == SelectSeq(reading, LAMBDA b : Contains(lower(b.title), q))
        broad   == SelectSeq(every, LAMBDA b : Contains(lower(b.title), q))
    IN  IF reading = <<>> THEN None
        ELSE IF Len(reading) = 1 THEN Some(reading[1].book_id)
        ELSE IF ~TruthyStr(which) THEN None
        ELSE IF isdigit(w)
        THEN IF 1 <= idx /\ idx <= Len(reading) THEN Some(reading[idx].book_id) ELSE None
        ELSE IF exact # <<>> THEN Some(exact[1].book_id)
        ELSE IF partial # <<>> THEN Some(partial[1].book_id)
        ELSE IF broad # <<>> THEN Some(broad[1].book_id)
        ELSE None

\* resolve_reading_book_id: the book id, or None
resolve_reading_book_id(D, uid, which, tie) ==
    LET reading == list_user_books(D, uid, Some(STATUS_READING), 200, tie).val
        w       == strip(Val(which))
        idx     == Val(int(w))
        q       == lower(w)
        exact   == SelectSeq(reading, LAMBDA b : lower(strip(b.title)) = q)
        partial == SelectSeq(reading, LAMBDA b : Contains(lower(b.title), q))
    IN  IF reading = <<>> THEN None
        ELSE IF Len(reading) = 1 THEN Some(reading[1].book_id)
        ELSE IF ~TruthyStr(which) THEN None
        ELSE IF isdigit(w)
        THEN IF 1 <= idx /\ idx <= Len(reading) THEN Some(reading[idx].book_id) ELSE None
        ELSE IF exact # <<>> THEN Some(exact[1].book_id)
        ELSE IF partial # <<>> THEN Some(partial[1].book_id)
        ELSE None

\* The book ids of a reading list, in its order (format_reading_list numbers
\* the books in this order)
BookIdsOf(reading) == [k \in 1..Len(reading) |-> reading[k].book_id]

\* (mutant) the page of a percent computed with int() alone, without round()
DerivedPayloadPageTruncated(payload, link) ==
    LET tp  == Or(payload.total_pages, link.total_pages)
        p1  == IF payload.progress_pct # None /\ payload.current_page = None /\ TruthyInt(tp)
               THEN [payload EXCEPT !.current_page =
                        Some(PyRoundTruncates(Val(payload.progress_pct) * Val(tp), 100))]
               ELSE payload
        tp2 == Or(p1.total_pages, link.total_pages)
    IN  IF p1.current_page # None /\ p1.progress_pct = None /\ TruthyInt(tp2)
        THEN [p1 EXCEPT !.progress_pct =
                 Some(ClampPct(PctOfPages(Val(p1.current_page), Val(tp2))))]
        ELSE p1

\* (mutant) the percent of a page derived only from a total typed with it
DerivedPayloadOwnTotalOnly(payload, link) ==
    LET tp  == Or(payload.total_pages, link.total_pages)
        p1  == IF payload.progress_pct # None /\ payload.current_page = None /\ TruthyInt(tp)
               THEN [payload EXCEPT !.current_page =
                        Some(PyRound(Val(payload.progress_pct) * Val(tp), 100))]
               ELSE payload
        tp2 == p1.total_pages
    IN  IF p1.current_page # None /\ p1.progress_pct = None /\ TruthyInt(tp2)
        THEN [p1 EXCEPT !.progress_pct =
                 Some(ClampPct(PctOfPages(Val(p1.current_page), Val(tp2))))]
        ELSE p1

\* The payload of progress after its two derivations (main.py:496-509)
DerivedPayload(payload, link) ==
    LET tp  == Or(payload.total_pages, link.total_pages)
        p1  == IF payload.progress_pct # None /\ payload.current_page = None /\ TruthyInt(tp)
               THEN [payload EXCEPT !.current_page =
                        Some(PyRound(Val(payload.progress_pct) * Val(tp), 100))]
               ELSE payload
        tp2 == Or(p1.total_pages, link.total_pages)
    IN  IF p1.current_page # None /\ p1.progress_pct = None /\ TruthyInt(tp2)
        THEN [p1 EXCEPT !.progress_pct =
                 Some(ClampPct(PctOfPages(Val(p1.current_page), Val(tp2))))]
        ELSE p1

\* progress from the parsed value on (main.py:486-529): the two derivations,
\* then either the reply that total pages are needed, with the write still
\* to come, or the write
progress_parsed(D, t, uid, book_id, parsed, link) ==
    LET payload == DerivedPayload(parsed.val, Val(link))
        U       == update_user_book_progress(D, t, uid, book_id, payload.progress_pct,
                                             payload.current_page, payload.total_pages)
    IN  IF parsed.err # "" THEN Handled(D, "", <<"bad progress value", <<>>>>, None)
        ELSE IF link = None THEN Handled(D, "", <<"internal error", <<>>>>, None)
        ELSE IF /\ payload.progress_pct # None /\ Val(link).total_pages = None
                /\ payload.total_pages = None /\ payload.current_page = None
        THEN Handled(D, "", <<"need total pages", <<book_id>>>>,
                     Some(Cont("progress_store", uid, book_id, Val(payload.progress_pct), "", None)))
        ELSE IF U.err # "" THEN Handled(U.db, U.err, <<>>, None)
        ELSE Handled(U.db, "", <<"progress updated", <<book_id>>>>,
                     Some(Cont("announce", uid, book_id, 0, "", None)))

\* progress from its reading list on (main.py:467-482)
progress_listed(D, t, uid, value, which, reading, book_id) ==
    IF reading = <<>> THEN Handled(D, "", <<"no active reading books", <<>>>>, None)
    ELSE IF Len(reading) > 1 /\ ~TruthyStr(which)
    THEN Handled(D, "", <<"multiple books", BookIdsOf(reading)>>, None)
    ELSE IF book_id = None THEN Handled(D, "", <<"could not resolve", <<>>>>, None)
    ELSE progress_parsed(D, t, uid, Val(book_id), parse_progress_value(value),
                         get_user_book_link(D, uid, Val(book_id)))

\* progress up to its first await that is followed by more work
progress(D, t, uid, value, which, tie) ==
    progress_listed(ensure_user(D, uid, t), t, uid, value, which,
                    list_user_books(ensure_user(D, uid, t), uid, Some(STATUS_READING), 200, tie).val,
                    resolve_reading_book_id(ensure_user(D, uid, t), uid, which, tie))

\* The milestone check that follows a write U of the store
announce_after(U, t, uid, book_id, has_channel) ==
    LET A == announce_milestone_if_crossed(U.db, t, uid, book_id, has_channel)
    IN  IF U.err # "" THEN Handled(U.db, U.err, <<<<>>, None>>, None)
        ELSE Handled(A.db, "", A.val, None)

\* (mutant) the percent is stored after the reply only if the link is still
\* being read
progress_store_ReadingOnly(D, t, c, has_channel) ==
    LET link == get_user_book_link(D, c.uid, c.book_id)
    IN  IF link # None /\ Val(link).status # STATUS_READING
        THEN Handled(D, "", <<<<>>, None>>, None)
        ELSE announce_after(update_user_book_progress(D, t, c.uid, c.book_id, Some(c.pct), None, None),
                            t, c.uid, c.book_id, has_channel)

\* progress after the await of its "need total pages" reply (main.py:515-516)
progress_store(D, t, c, has_channel) ==
    announce_after(update_user_book_progress(D, t, c.uid, c.book_id, Some(c.pct), None, None),
                   t, c.uid, c.book_id, has_channel)

\* finish after its snap to 100 percent U (main.py:567-569)
finish_snapped(U, t, uid, book_id) ==
    LET S == update_user_book_status(U.db, t, uid, book_id, STATUS_FINISHED)
    IN  IF U.err # "" THEN Handled(U.db, U.err, <<>>, None)
        ELSE IF S.err # "" THEN Handled(S.db, S.err, <<>>, None)
        ELSE Handled(S.db, "", <<"marked as finished", <<book_id>>>>,
                     Some(Cont("announce", uid, book_id, 0, "", None)))

\* (mutant) finish writes 100 percent without moving the page to the last one
finish_listed_NoSnap(D, t, uid, which, reading, book_id) ==
    IF reading = <<>> THEN Handled(D, "", <<"no active reading books", <<>>>>, None)
    ELSE IF Len(reading) > 1 /\ ~TruthyStr(which)
    THEN Handled(D, "", <<"multiple books", BookIdsOf(reading)>>, None)
    ELSE IF book_id = None THEN Handled(D, "", <<"could not resolve", <<>>>>, None)
    ELSE finish_snapped(update_user_book_progress(D, t, uid, Val(book_id), Some(100), None, None),
                        t, uid, Val(book_id))

\* finish from its reading list on (main.py:541-565)
finish_listed(D, t, uid, which, reading, book_id) ==
    LET link == get_user_book_link(D, uid, Val(book_id))
        tp   == IF link # None THEN Val(link).total_pages ELSE None
        cp   == IF link # None THEN Val(link).current_page ELSE None
    IN  IF reading = <<>> THEN Handled(D, "", <<"no active reading books", <<>>>>, None)
        ELSE IF Len(reading) > 1 /\ ~TruthyStr(which)
        THEN Handled(D, "", <<"multiple books", BookIdsOf(reading)>>, None)
        ELSE IF book_id = None THEN Handled(D, "", <<"could not resolve", <<>>>>, None)
        ELSE IF TruthyInt(tp) /\ (cp = None \/ Val(cp) < Val(tp))
        THEN finish_snapped(update_user_book_progress(D, t, uid, Val(book_id), Some(100), tp, None),
                            t, uid, Val(book_id))
        ELSE finish_snapped(update_user_book_progress(D, t, uid, Val(book_id), Some(100), None, None),
                            t, uid, Val(book_id))

\* finish up to the await of its reply
finish_book(D, t, uid, which, tie) ==
    finish_listed(ensure_user(D, uid, t), t, uid, which,
                  list_user_books(ensure_user(D, uid, t), uid, Some(STATUS_READING), 200, tie).val,
                  resolve_reading_book_id(ensure_user(D, uid, t), uid, which, tie))

\* The reply of addbook and of startbook to the outcome A of add_book_to_user
added(A, created, existed) ==
    IF A.err # "" THEN Handled(A.db, A.err, <<>>, None)
    ELSE IF A.val[3] THEN Handled(A.db, "", <<created, <<A.val[2]>>>>, None)
    ELSE Handled(A.db, "", <<existed, <<A.val[2]>>>>, None)

\* addbook from the cached results on (main.py:355-389)
addbook_cached(D, t, uid, index, results) ==
    IF results = <<>> THEN Handled(D, "", <<"run searchbook first", <<>>>>, None)
    ELSE IF ~(1 <= index /\ index <= Len(results))
    THEN Handled(D, "", <<"index out of range", <<>>>>, None)
    ELSE added(add_book_to_user(D, t, uid, results[index].title, results[index].author,
                                STATUS_READING, 0, None, results[index].page_count,
                                results[index].volume_id, results[index].isbn13),
               "added", "already on your list")

\* addbook: results is LAST_SEARCH.get(uid) or []
addbook(D, t, uid, index, results) ==
    addbook_cached(ensure_user(D, uid, t), t, uid, index, results)

\* searchbook up to the await of google_books_search
searchbook(D0, t, uid, query) ==
    Handled(ensure_user(D0, uid, t), "", <<"searching", <<>>>>,
            Some(Cont("searchbook", uid, 0, 0, query, None)))

\* startbook up to the await of google_books_search: "title | pages" is
\* taken apart
startbook(D0, t, uid, query) ==
    LET title0 == strip(query)
        lr     == SplitOnce(title0, "|")
        right  == strip(lr[2])
        title  == IF Contains(title0, "|") THEN strip(lr[1]) ELSE title0
        manual == IF Contains(title0, "|") /\ isdigit(right) THEN int(right) ELSE None
    IN  Handled(ensure_user(D0, uid, t), "", <<"searching", <<>>>>,
                Some(Cont("startbook", uid, 0, 0, title, manual)))

\* The outcome of the awaited google_books_search: the request failed with
\* an exception, or it returned these items (at most three)
Failed == [ok |-> FALSE, items |-> <<>>]
Found(items) == [ok |-> TRUE, items |-> items]

\* A step that may also have written the cache LAST_SEARCH
Searched(D, e, v, cache) == [db |-> D, err |-> e, val |-> v, next |-> None, cache |-> cache]

\* A step R that leaves the cache as it is
Caching(R, cache) == Searched(R.db, R.err, R.val, cache)

\* searchbook after the await (main.py:330-348)
searchbook_reply(D, cache, c, found) ==
    IF ~found.ok THEN Searched(D, ClientError, <<>>, cache)
    ELSE IF found.items = <<>> THEN Searched(D, "", <<"no results found", <<>>>>, cache)
    ELSE Searched(D, "", <<"top results", <<>>>>, [cache EXCEPT ![c.uid] = found.items])

\* startbook after the await (main.py:413-448)
startbook_reply(D, t, cache, c, found) ==
    IF ~found.ok THEN Searched(D, ClientError, <<>>, cache)
    ELSE IF found.items # <<>>
    THEN Searched(D, "", <<"pick one", <<>>>>, [cache EXCEPT ![c.uid] = found.items])
    ELSE IF c.pages = None THEN Searched(D, "", <<"no google books results", <<>>>>, cache)
    ELSE Caching(added(add_book_to_user(D, t, c.uid, c.title, None, STATUS_READING, 0, None,
                                        c.pages, None, None),
                       "created manually", "already existed"),
                 cache)

-----------------------------------------------------------------------------
(* Inputs of the model *)

\* Discord user ids: "u1" is the member who adds books, "u2" one who never does
Caller == "u1"
Stranger == "u2"
UserIds == {Caller, Stranger}

\* Book specs as the command layer passes them to add_book_to_user
Dune == [title |-> "Dune ", author |-> Some("Herbert"), google_volume_id |-> Some("g1"), isbn13 |-> None]
Emma == [title |-> "Emma", author |-> None, google_volume_id |-> None, isbn13 |-> None]
DuneByHand == [title |-> " dune ", author |-> Some("Herbert"), google_volume_id |-> None, isbn13 |-> None]

\* Book ids that calls name: the rows that can exist and one that never does
BookIds == 1..2

\* Status arguments: the enum, one that needs normalising, one outside it
StatusArgs == ALLOWED_STATUSES \cup {" Finished ", "bogus"}

\* Integer arguments below, inside and above the percent range
PctArgs == {-1, 60, 101}

\* Page arguments: negative, inside and past the book; totals: negative, zero, positive
PageArgs == {-1, 3, MaxPage + 1}
TotalArgs == {-MaxPage, 0, MaxPage}

\* The (user, book) pairs calls are aimed at: the member's link, a book the
\* member has no link to, and a user the store has never seen
Targets == {<<Caller, 1>>, <<Caller, 2>>, <<Stranger, 1>>}

Opt(S) == {None} \cup {Some(v) : v \in S}

\* The two orders an ORDER BY may give rows of equal key
Ties == {"rowid_asc", "rowid_desc"}

\* Items of google_books_search (published_year left out: it is stored but
\* never read back by a command)
DuneItem == [title |-> "Dune", author |-> Some("Herbert"), volume_id |-> Some("g1"), isbn13 |-> None, page_count |-> Some(MaxPage)]
EmmaItem == [title |-> "Emma", author |-> None, volume_id |-> Some("g2"), isbn13 |-> None, page_count |-> None]

\* Outcomes of a search
SearchOutcomes == {Failed, Found(<<>>), Found(<<DuneItem, EmmaItem>>)}

-----------------------------------------------------------------------------
(* State machine of the store *)

Init ==
    /\ users = <<>>
    /\ books = <<>>
    /\ user_books = <<>>
    /\ now = 1
    /\ ret = [op |-> "init", args |-> <<>>, err |-> "", val |-> <<>>]
    /\ sent = <<>>
    /\ LAST_SEARCH = [uid \in UserIds |-> <<>>]
    /\ pending = EmptyBag

\* The store after a call returned R, and the record of the call's outcome
Commit(R) ==
    /\ users' = R.db.users
    /\ books' = R.db.books
    /\ user_books' = R.db.user_books

Outcome(op, args, R) == [op |-> op, args |-> args, err |-> R.err, val |-> R.val]

\* A second of wall-clock time passes
Tick ==
    /\ now < MaxTime
    /\ now' = now + 1
    /\ ret' = [op |-> "tick", args |-> <<>>, err |-> "", val |-> <<>>]
    /\ UNCHANGED <<users, books, user_books, sent, LAST_SEARCH, pending>>

AddBookToUser(uid, bk, status, pct, cp, tp) ==
    \E R \in {add_book_to_user(DB, utc_now_iso, uid, bk.title, bk.author, status, pct, cp, tp, bk.google_volume_id, bk.isbn13)} :
        /\ Commit(R)
        /\ ret' = Outcome("add_book_to_user", <<uid, bk.title, status, pct, cp, tp>>, R)
        /\ UNCHANGED <<now, sent, LAST_SEARCH, pending>>

UpdateProgress(uid, book_id, pct, cp, tp) ==
    \E R \in {update_user_book_progress(DB, utc_now_iso, uid, book_id, pct, cp, tp)} :
        /\ Commit(R)
        /\ ret' = Outcome("update_user_book_progress", <<uid, book_id, pct, cp, tp>>, R)
        /\ UNCHANGED <<now, sent, LAST_SEARCH, pending>>

UpdateStatus(uid, book_id, status) ==
    \E R \in {update_user_book_status(DB, utc_now_iso, uid, book_id, status)} :
        /\ Commit(R)
        /\ ret' = Outcome("update_user_book_status", <<uid, book_id, status>>, R)
        /\ UNCHANGED <<now, sent, LAST_SEARCH, pending>>

SetLastMilestone(uid, book_id, milestone) ==
    \E R \in {set_last_milestone(DB, utc_now_iso, uid, book_id, milestone)} :
        /\ Commit(R)
        /\ ret' = Outcome("set_last_milestone", <<uid, book_id, milestone>>, R)
        /\ UNCHANGED <<now, sent, LAST_SEARCH, pending>>

\* announce_milestone_if_crossed, as the progress and finish commands run it
\* after their write
Announce(uid, book_id, has_channel) ==
    \E R \in {announce_milestone_if_crossed(DB, utc_now_iso, uid, book_id, has_channel)} :
        /\ Commit(R)
        /\ ret' = Outcome("announce_milestone_if_crossed", <<uid, book_id, has_channel>>, R)
        /\ sent' = IF R.val[2] = None THEN sent ELSE Append(sent, Val(R.val[2]))
        /\ UNCHANGED <<now, LAST_SEARCH, pending>>

\* A handler that suspends with work to do joins pending; at most MaxPending
\* handlers are suspended at a time
Suspend(R) ==
    /\ pending' = IF R.next = None THEN pending ELSE pending (+) SetToBag({Val(R.next)})
    /\ BagCardinality(pending') <= MaxPending

\* The handler suspended as c resumes
Resume(c) ==
    pending' = pending (-) SetToBag({c})

\* !progress <value> [which]
CmdProgress(uid, value, which, tie) ==
    \E R \in {progress(DB, utc_now_iso, uid, value, which, tie)} :
        /\ Commit(R)
        /\ ret' = Outcome("progress", <<uid, value, which>>, R)
        /\ Suspend(R)
        /\ UNCHANGED <<now, sent, LAST_SEARCH>>

\* !finish [which]
CmdFinish(uid, which, tie) ==
    \E R \in {finish_book(DB, utc_now_iso, uid, which, tie)} :
        /\ Commit(R)
        /\ ret' = Outcome("finish", <<uid, which>>, R)
        /\ Suspend(R)
        /\ UNCHANGED <<now, sent, LAST_SEARCH>>

\* !addbook <index>
CmdAddbook(uid, index) ==
    \E R \in {addbook(DB, utc_now_iso, uid, index, LAST_SEARCH[uid])} :
        /\ Commit(R)
        /\ ret' = Outcome("addbook", <<uid, index>>, R)
        /\ UNCHANGED <<now, sent, LAST_SEARCH, pending>>

\* !searchbook <query>
CmdSearchbook(uid, query) ==
    \E R \in {searchbook(DB, utc_now_iso, uid, query)} :
        /\ Commit(R)
        /\ ret' = Outcome("searchbook", <<uid, query>>, R)
        /\ Suspend(R)
        /\ UNCHANGED <<now, sent, LAST_SEARCH>>

\* !startbook <query>
CmdStartbook(uid, query) ==
    \E R \in {startbook(DB, utc_now_iso, uid, query)} :
        /\ Commit(R)
        /\ ret' = Outcome("startbook", <<uid, query>>, R)
        /\ Suspend(R)
        /\ UNCHANGED <<now, sent, LAST_SEARCH>>

\* google_books_search returns to a suspended searchbook
SearchbookReply(found) ==
    \E c \in BagToSet(pending) :
        \E R \in {searchbook_reply(DB, LAST_SEARCH, c, found)} :
            /\ c.k = "searchbook"
            /\ Commit(R)
            /\ ret' = Outcome("searchbook_reply", <<c.uid, c.title, found>>, R)
            /\ LAST_SEARCH' = R.cache
            /\ Resume(c)
            /\ UNCHANGED <<now, sent>>

\* google_books_search returns to a suspended startbook
StartbookReply(found) ==
    \E c \in BagToSet(pending) :
        \E R \in {startbook_reply(DB, utc_now_iso, LAST_SEARCH, c, found)} :
            /\ c.k = "startbook"
            /\ Commit(R)
            /\ ret' = Outcome("startbook_reply", <<c.uid, c.title, c.pages, found>>, R)
            /\ LAST_SEARCH' = R.cache
            /\ Resume(c)
            /\ UNCHANGED <<now, sent>>

\* A suspended progress or finish goes on to its milestone check
ResumeAnnounce(has_channel) ==
    \E c \in BagToSet(pending) :
        \E R \in {announce_milestone_if_crossed(DB, utc_now_iso, c.uid, c.book_id, has_channel)} :
            /\ c.k = "announce"
            /\ Commit(R)
            /\ ret' = Outcome("announce_milestone_if_crossed", <<c.uid, c.book_id, has_channel>>, R)
            /\ sent' = IF R.val[2] = None THEN sent ELSE Append(sent, Val(R.val[2]))
            /\ Resume(c)
            /\ UNCHANGED <<now, LAST_SEARCH>>

\* A progress suspended on its "need total pages" reply stores the percent
\* and runs its milestone check
ResumeProgressStore(has_channel) ==
    \E c \in BagToSet(pending) :
        \E R \in {progress_store(DB, utc_now_iso, c, has_channel)} :
            /\ c.k = "progress_store"
            /\ Commit(R)
            /\ ret' = Outcome("progress_store", <<c.uid, c.book_id, c.pct, has_channel>>, R)
            /\ sent' = IF R.val[2] = None THEN sent ELSE Append(sent, Val(R.val[2]))
            /\ Resume(c)
            /\ UNCHANGED <<now, LAST_SEARCH>>

\* add_or_get_book, called on its own; bk holds its arguments
AddOrGetBook(bk) ==
    \E R \in {add_or_get_book(DB, bk.title, bk.author, bk.google_volume_id, bk.isbn13, utc_now_iso)} :
        /\ Commit(R)
        /\ ret' = [op |-> "add_or_get_book",
                   args |-> <<bk.title, bk.author, bk.google_volume_id, bk.isbn13>>,
                   err |-> R.err, val |-> <<R.id>>]
        /\ UNCHANGED <<now, sent, LAST_SEARCH, pending>>

\* upsert_user, called on its own
UpsertUser(uid, display_name) ==
    \E R \in {upsert_user(DB, uid, display_name, utc_now_iso)} :
        /\ Commit(R)
        /\ ret' = [op |-> "upsert_user", args |-> <<uid, display_name>>,
                   err |-> "", val |-> <<R.id>>]
        /\ UNCHANGED <<now, sent, LAST_SEARCH, pending>>

\* list_user_books, called on its own; the store is only read
ListUserBooks(uid, status, tie) ==
    \E R \in {list_user_books(DB, uid, status, 50, tie)} :
        /\ ret' = [op |-> "list_user_books", args |-> <<uid, status, tie>>,
                   err |-> R.err, val |-> BookIdsOf(R.val)]
        /\ UNCHANGED <<users, books, user_books, now, sent, LAST_SEARCH, pending>>

\* resolve_reading_book_id, called on its own; the store is only read
Resolve(uid, which, tie) ==
    \E b \in {resolve_reading_book_id(DB, uid, which, tie)} :
        /\ ret' = [op |-> "resolve_reading_book_id", args |-> <<uid, which, tie>>,
                   err |-> "", val |-> b]
        /\ UNCHANGED <<users, books, user_books, now, sent, LAST_SEARCH, pending>>

\* parse_progress_value, called on its own with the token "current/total" as
\* a member types it; nothing is read or written
ParseRatio(cp, tp) ==
    \E R \in {parse_progress_value(str(cp) \o "/" \o str(tp))} :
        /\ ret' = [op |-> "parse_progress_value", args |-> <<str(cp) \o "/" \o str(tp), cp, tp>>,
                   err |-> R.err, val |-> R.val]
        /\ UNCHANGED <<users, books, user_books, now, sent, LAST_SEARCH, pending>>

\* get_user_profile_summary, called on its own; the store is only read
ProfileSummary(uid) ==
    \E R \in {get_user_profile_summary(DB, uid)} :
        /\ ret' = [op |-> "get_user_profile_summary", args |-> <<uid>>, err |-> "", val |-> R]
        /\ UNCHANGED <<users, books, user_books, now, sent, LAST_SEARCH, pending>>

\* The update_user_book_progress calls of Spec: every combination of percent
\* and page arguments on the member's book, a few on the other targets
ProgressCalls ==
    {<<Caller, 1, pct, cp, tp>> : pct \in Opt(PctArgs), cp \in Opt(PageArgs), tp \in Opt(TotalArgs)}
    \cup {<<x[1], x[2], pct, cp, tp>> : x \in Targets, pct \in Opt({60}), cp \in Opt({3}), tp \in {Some(-MaxPage)}}
    \cup {<<x[1], x[2], Some(60), None, None>> : x \in Targets}

\* The store driven through its progress fields: one member, one book, every
\* kind of percent and page argument
Next ==
    \/ \E pct \in PctArgs, tp \in Opt({MaxPage}) :
          AddBookToUser(Caller, Dune, STATUS_READING, pct, None, tp)
    \/ \E c \in ProgressCalls : UpdateProgress(c[1], c[2], c[3], c[4], c[5])
    \/ UpdateStatus(Caller, 1, STATUS_FINISHED)
    \/ \E x \in Targets : SetLastMilestone(x[1], x[2], -1)

Spec == Init /\ [][Next]_vars

\* The store driven through its statuses and timestamps: one member, one
\* book, every status, and a clock that advances between calls
NextStamps ==
    \/ \E st \in {STATUS_READING, STATUS_PAUSED, " Finished ", "bogus"} :
          AddBookToUser(Caller, Dune, st, 0, None, None)
    \/ \E st \in StatusArgs : UpdateStatus(Caller, 1, st)
    \/ \E x \in Targets : UpdateStatus(x[1], x[2], STATUS_FINISHED)
    \/ UpdateProgress(Caller, 1, Some(60), None, None)
    \/ SetLastMilestone(Caller, 1, 25)
    \/ Tick

SpecStamps == Init /\ [][NextStamps]_vars

\* The add_book_to_user calls of SpecLinks: both members add Dune, from a
\* search result or under a hand-typed title; the first also adds Emma
LinkCalls ==
    {<<uid, bk, x[1], x[2]>> : uid \in UserIds, bk \in {Dune, DuneByHand},
                               x \in {<<STATUS_READING, 0>>, <<STATUS_READING, 60>>, <<"bogus", 0>>}}
    \cup {<<Caller, Emma, STATUS_READING, pct>> : pct \in {0, 60}}

\* The store driven through its links: the same pairs added again and again
NextLinks ==
    \E c \in LinkCalls : AddBookToUser(c[1], c[2], c[3], c[4], None, None)

SpecLinks == Init /\ [][NextLinks]_vars

\* The store driven through every percent: one link, update_user_book_progress
\* with each percent of -1..101, alone or with page arguments
NextRoundTrip ==
    \/ AddBookToUser(Caller, Dune, STATUS_READING, 0, None, None)
    \/ \E pct \in -1..101, x \in {<<None, None>>, <<Some(3), Some(MaxPage)>>, <<None, Some(0)>>} :
          UpdateProgress(Caller, 1, Some(pct), x[1], x[2])
    \/ UpdateProgress(Caller, 1, None, Some(3), Some(MaxPage))

SpecRoundTrip == Init /\ [][NextRoundTrip]_vars

\* The store driven through its milestones: one link, every percent written,
\* the milestone check run after any of them
NextMilestone ==
    \/ AddBookToUser(Caller, Dune, STATUS_READING, 0, None, None)
    \/ \E pct \in 0..100 : UpdateProgress(Caller, 1, Some(pct), None, None)
    \/ \E x \in Targets, has_channel \in BOOLEAN : Announce(x[1], x[2], has_channel)

SpecMilestone == Init /\ [][NextMilestone]_vars

\* The bot driven by one member's commands, the handlers interleaving at
\* their awaits
NextCmd ==
    \/ \E query \in {"Emma", " Emma | 8"} : CmdStartbook(Caller, query)
    \/ \E found \in {Failed, Found(<<>>), Found(<<EmmaItem>>)} : StartbookReply(found)
    \/ CmdAddbook(Caller, 1)
    \/ \E value \in {"60%", "10%"}, tie \in Ties : CmdProgress(Caller, value, None, tie)
    \/ \E tie \in Ties : CmdFinish(Caller, None, tie)
    \/ \E has_channel \in BOOLEAN : ResumeAnnounce(has_channel)
    \/ \E has_channel \in BOOLEAN : ResumeProgressStore(has_channel)

SpecCmd == Init /\ [][NextCmd]_vars

\* The add_or_get_book calls of SpecBooks: two titles in several spellings,
\* with or without an author, a catalog id and an ISBN-13, and two calls whose
\* author and catalog id are the empty string
BookCalls ==
    {[title |-> "Dune", author |-> au, google_volume_id |-> g, isbn13 |-> n] :
        au \in {None, Some(" herbert")}, g \in {None, Some("g1")}, n \in {None, Some("i1")}}
    \cup {[title |-> "Emma", author |-> None, google_volume_id |-> g, isbn13 |-> n] :
              g \in {None, Some("g1")}, n \in {None, Some("i1")}}
    \cup {[title |-> " dune ", author |-> au, google_volume_id |-> None, isbn13 |-> None] :
              au \in {None, Some("Herbert ")}}
    \cup {[title |-> ti, author |-> Some(""), google_volume_id |-> Some(""), isbn13 |-> None] :
              ti \in {"Dune", "Emma"}}

\* The books table driven by add_or_get_book alone
NextBooks ==
    \E bk \in BookCalls : AddOrGetBook(bk)

SpecBooks == Init /\ [][NextBooks]_vars

\* Display names as ensure_user and add_book_to_user pass them: absent, empty
\* or a name
NameArgs == {None, Some(""), Some("Ann"), Some("Bob")}

\* The users table driven by upsert_user alone, the clock advancing
NextUsers ==
    \/ \E uid \in UserIds, display_name \in NameArgs : UpsertUser(uid, display_name)
    \/ Tick

SpecUsers == Init /\ [][NextUsers]_vars

\* A third book, whose title contains the title of Dune
Messiah == [title |-> "Dune Messiah", author |-> Some("Herbert"), google_volume_id |-> Some("g3"), isbn13 |-> None]

\* Status filters of list_user_books: absent, empty, of the enum, one that
\* needs normalising, one outside the enum
FilterArgs == {None, Some(""), Some(STATUS_READING), Some(" Reading "), Some("bogus")}

\* The member's books driven by add_book_to_user and the clock, and read by
\* list_user_books
NextList ==
    \/ AddBookToUser(Caller, Dune, STATUS_READING, 0, None, None)
    \/ AddBookToUser(Caller, Messiah, STATUS_READING, 0, None, None)
    \/ AddBookToUser(Caller, Emma, STATUS_FINISHED, 100, None, None)
    \/ Tick
    \/ \E status \in FilterArgs, tie \in Ties : ListUserBooks(Caller, status, tie)
    \/ \E status \in {None, Some(STATUS_READING), Some("bogus")} :
          ListUserBooks(Stranger, status, "rowid_asc")

SpecList == Init /\ [][NextList]_vars

\* The [which] of progress and finish: absent, indexes inside and outside a
\* list of two, titles in full and in part, the title of a finished book, a
\* title of no book
WhichArgs ==
    {None, Some("0"), Some("1"), Some(" 02 "), Some("3"),
     Some(" DUNE "), Some("mess"), Some("une"), Some("emma"), Some("zz")}

\* The member's reading list driven by add_book_to_user and the clock, and
\* read by resolve_reading_book_id
NextResolve ==
    \/ AddBookToUser(Caller, Dune, STATUS_READING, 0, None, None)
    \/ AddBookToUser(Caller, Messiah, STATUS_READING, 0, None, None)
    \/ AddBookToUser(Caller, Emma, STATUS_FINISHED, 100, None, None)
    \/ Tick
    \/ \E which \in WhichArgs, tie \in Ties : Resolve(Caller, which, tie)
    \/ Resolve(Stranger, Some("1"), "rowid_asc")

SpecResolve == Init /\ [][NextResolve]_vars

\* Pairs (current, total): every page from -1 to past the end of a book of
\* 1, 3, MaxPage - 1 or MaxPage pages, the same pages with a total of -1 and
\* of 0, and the pair (120, 500)
Ratios ==
    {<<cp, tp>> : cp \in -1..(MaxPage + 1), tp \in {-1, 0, 1, 3, MaxPage - 1, MaxPage}}
    \cup {<<120, 500>>}

\* One link driven through the percent derived from pages: typed as a token
\* current/total, or passed to update_user_book_progress without a percent
NextRatio ==
    \/ AddBookToUser(Caller, Dune, STATUS_READING, 0, None, None)
    \/ \E x \in Ratios : ParseRatio(x[1], x[2])
    \/ \E x \in {y \in Ratios : y[2] > 0} :
          UpdateProgress(Caller, 1, None, Some(x[1]), Some(x[2]))

SpecRatio == Init /\ [][NextRatio]_vars

\* Percent tokens of progress: inside, above and below the range, with and
\* without blanks
PercentTokens == {"60%", " 150 %", "-5%", "35%"}

\* The bot driven by one member who starts a book with a page count, with a
\* page count of 0 or without one, and reports percents
NextPercent ==
    \/ \E query \in {"Emma", "Emma | 0", "Emma |" \o str(MaxPage)} : CmdStartbook(Caller, query)
    \/ \E found \in {Found(<<>>), Found(<<EmmaItem>>)} : StartbookReply(found)
    \/ CmdAddbook(Caller, 1)
    \/ \E value \in PercentTokens : CmdProgress(Caller, value, None, "rowid_asc")
    \/ ResumeAnnounce(FALSE)
    \/ ResumeProgressStore(FALSE)

SpecPercent == Init /\ [][NextPercent]_vars

\* Bare page tokens of progress: inside, at the start of, past the end of and
\* before the book, with and without blanks
PageTokens == {"3", " 5 ", "0", str(MaxPage + 1), "-2"}

\* The bot driven by one member who starts a book with a page count, with a
\* page count of 0 or without one, and reports pages and a percent
NextPage ==
    \/ \E query \in {"Emma", "Emma | 0", "Emma |" \o str(MaxPage)} : CmdStartbook(Caller, query)
    \/ \E found \in {Found(<<>>), Found(<<EmmaItem>>)} : StartbookReply(found)
    \/ CmdAddbook(Caller, 1)
    \/ \E value \in PageTokens \cup {"60%"} : CmdProgress(Caller, value, None, "rowid_asc")
    \/ ResumeAnnounce(FALSE)
    \/ ResumeProgressStore(FALSE)

SpecPage == Init /\ [][NextPage]_vars

\* Two members' books driven through the statuses by add_book_to_user and
\* update_user_book_status, and counted by get_user_profile_summary
NextProfile ==
    \/ \E st \in {STATUS_READING, STATUS_FINISHED, STATUS_PAUSED} :
          AddBookToUser(Caller, Dune, st, 0, None, None)
    \/ AddBookToUser(Caller, Emma, STATUS_PAUSED, 0, None, None)
    \/ AddBookToUser(Caller, Messiah, STATUS_PLAN, 0, None, None)
    \/ AddBookToUser(Stranger, Dune, STATUS_READING, 0, None, None)
    \/ \E book_id \in BookIds : UpdateStatus(Caller, book_id, STATUS_DNF)
    \/ \E uid \in UserIds : ProfileSummary(uid)

SpecProfile == Init /\ [][NextProfile]_vars

\* Book specs whose catalog id is the empty string
DuneBlank == [title |-> "Dune", author |-> None, google_volume_id |-> Some(""), isbn13 |-> None]
EmmaBlank == [title |-> "Emma", author |-> None, google_volume_id |-> Some(""), isbn13 |-> None]

\* The store driven into each of its errors: a status outside the enum, a
\* pair without a link, a user the store has not seen, a total that is not
\* positive, and a second book with the catalog id of another
NextErrors ==
    \/ \E st \in {STATUS_READING, "bogus"} : AddBookToUser(Caller, DuneBlank, st, 0, None, None)
    \/ \E st \in {STATUS_READING, "bogus"} : AddBookToUser(Stranger, EmmaBlank, st, 0, None, None)
    \/ \E x \in Targets, st \in {STATUS_FINISHED, "bogus"} : UpdateStatus(x[1], x[2], st)
    \/ \E x \in Targets, tp \in {None, Some(-1)} : UpdateProgress(x[1], x[2], None, Some(3), tp)

SpecErrors == Init /\ [][NextErrors]_vars

\* The bot driven by one member's searches, each of which fails, finds
\* nothing or finds books, and by the addbook that picks from the last find
NextSearch ==
    \/ \E query \in {"Dune", " emma "} : CmdSearchbook(Caller, query)
    \/ \E found \in SearchOutcomes : SearchbookReply(found)
    \/ \E query \in {"Emma", " Emma | 8"} : CmdStartbook(Caller, query)
    \/ \E found \in {Failed, Found(<<>>), Found(<<EmmaItem>>)} : StartbookReply(found)
    \/ \E index \in 1..2 : CmdAddbook(Caller, index)

SpecSearch == Init /\ [][NextSearch]_vars

\* The bot driven by one member with two books on the reading list, one with
\* a page count and one without: progress and finish name a book by its
\* index, and the handlers interleave at their awaits
NextShelf ==
    \/ AddBookToUser(Caller, Dune, STATUS_READING, 0, None, Some(MaxPage))
    \/ AddBookToUser(Caller, Emma, STATUS_READING, 0, None, None)
    \/ \E which \in {Some("1"), Some("2")} : CmdProgress(Caller, "30%", which, "rowid_asc")
    \/ \E which \in {None, Some("1"), Some("2")} : CmdFinish(Caller, which, "rowid_asc")
    \/ ResumeAnnounce(TRUE)
    \/ \E has_channel \in BOOLEAN : ResumeProgressStore(has_channel)

SpecShelf == Init /\ [][NextShelf]_vars

\* Two members and two books, three links between them, each written by
\* update_user_book_progress, update_user_book_status and set_last_milestone;
\* the calls name every pair, those without a link too
NextFrame ==
    \/ \E x \in {<<Caller, Dune>>, <<Caller, Emma>>, <<Stranger, Dune>>} :
          AddBookToUser(x[1], x[2], STATUS_READING, 0, None, None)
    \/ \E x \in {<<Caller, 2>>, <<Stranger, 1>>, <<Stranger, 2>>} :
          UpdateProgress(x[1], x[2], Some(60), None, None)
    \/ \E uid \in UserIds : UpdateStatus(uid, 1, STATUS_FINISHED)
    \/ \E uid \in UserIds, book_id \in BookIds : SetLastMilestone(uid, book_id, 50)

SpecFrame == Init /\ [][NextFrame]_vars

\* The bot driven by one member with up to three books on the reading list,
\* one of them with a page count and a page short of it: finish names
\* the first book of the list, its milestone check follows, and
\* resolve_reading_book_id reads the list that is left
NextFinish ==
    \/ AddBookToUser(Caller, Dune, STATUS_READING, 0, None, Some(MaxPage))
    \/ AddBookToUser(Caller, Messiah, STATUS_READING, 0, None, None)
    \/ AddBookToUser(Caller, Emma, STATUS_READING, 0, None, None)
    \/ UpdateProgress(Caller, 1, None, Some(3), None)
    \/ CmdFinish(Caller, Some("1"), "rowid_asc")
    \/ ResumeAnnounce(TRUE)
    \/ \E which \in {Some("1"), Some("2")} : Resolve(Caller, which, "rowid_asc")

SpecFinish == Init /\ [][NextFinish]_vars

-----------------------------------------------------------------------------
(* Properties of the progress fields, checked under Spec *)

\* What a read of the link of (uid, book_id) returns: the row, or None
Link(uid, book_id) == get_user_book_link(DB, uid, book_id)

\* The call the last step made was update_user_book_progress
WasProgress == ret.op = "update_user_book_progress"

\* p brought into 0..100
Into0To100(p) == IF p < 0 THEN 0 ELSE IF p > 100 THEN 100 ELSE p

\* p is an integer nearest to 100 * cp / tp, brought into 0..100 (tp # 0)
NearestPct(p, cp, tp) ==
    LET n == IF tp < 0 THEN -(100 * cp) ELSE 100 * cp
        d == IF tp < 0 THEN -tp ELSE tp
        e == n - p * d
    IN  /\ p \in 0..100
        /\ p = 0 => 2 * n <= d
        /\ p = 100 => 2 * n >= 199 * d
        /\ p \in 1..99 => 2 * (IF e < 0 THEN -e ELSE e) <= d

\* C1: in every reachable store state every link's progress percent is an
\* integer in [0,100], whatever integers add_book_to_user,
\* update_user_book_progress, update_user_book_status and set_last_milestone
\* were called with.
C1_PercentInRange ==
    \A i \in 1..Len(user_books) : user_books[i].progress_pct \in 0..100

\* A percent derived from a page past the end of the book was clamped to 100
C1_Witness ==
    /\ WasProgress /\ ret.err = ""
    /\ ret.args = <<Caller, 1, None, Some(MaxPage + 1), Some(MaxPage)>>
    /\ Val(Link(Caller, 1)).progress_pct = 100

\* C7 as claimed: update_user_book_progress on a pair with no link fails with
\* NotLinked and changes no row, whether or not the user exists.
C7_Original ==
    [][(WasProgress' /\ get_user_book_link(DB, ret'.args[1], ret'.args[2]) = None)
        => (ret'.err = NotLinked /\ UNCHANGED <<users, books, user_books>>)]_vars

\* C7 as amended: update_user_book_progress on a pair with no link raises an
\* error and changes no row of users, books or user_books; the error is
\* "User not found." when the user does not exist, "total_pages must be > 0"
\* when percent is omitted, current_page is given and total_pages is negative,
\* and NotLinked otherwise.
C7_UnlinkedFailsUnchanged ==
    [][(WasProgress' /\ get_user_book_link(DB, ret'.args[1], ret'.args[2]) = None)
        => LET a == ret'.args
           IN  /\ UNCHANGED <<users, books, user_books>>
               /\ ret'.err =
                    IF \A i \in 1..Len(users) : users[i].discord_user_id # a[1]
                    THEN UserNotFound
                    ELSE IF a[3] = None /\ a[4] # None /\ a[5] # None /\ Val(a[5]) < 0
                    THEN InvalidInput
                    ELSE NotLinked]_vars

\* The member exists, has no link to book 2, and the call failed with NotLinked
C7_Witness ==
    /\ WasProgress /\ ret.err = NotLinked
    /\ ret.args[1] = Caller /\ ret.args[2] = 2
    /\ Link(Caller, 1) # None /\ Link(Caller, 2) = None

\* C8 as claimed: update_user_book_progress on an existing link fails with
\* InvalidInput whenever total_pages is supplied <= 0, whatever the other
\* arguments, and the link keeps its total_pages.
C8_Original ==
    [][(/\ WasProgress'
        /\ get_user_book_link(DB, ret'.args[1], ret'.args[2]) # None
        /\ ret'.args[5] # None /\ Val(ret'.args[5]) <= 0)
        => (/\ ret'.err = InvalidInput
            /\ Val(get_user_book_link(DB', ret'.args[1], ret'.args[2])).total_pages
                 = Val(get_user_book_link(DB, ret'.args[1], ret'.args[2])).total_pages)]_vars

\* C9 as claimed: a successful update_user_book_progress writes each supplied
\* field (percent clamped) and leaves each omitted field, and status,
\* started_at, finished_at and last_milestone, as they were.
C9_Original ==
    [][(WasProgress' /\ ret'.err = "")
        => LET a   == ret'.args
               old == Val(get_user_book_link(DB, a[1], a[2]))
               new == Val(get_user_book_link(DB', a[1], a[2]))
           IN  /\ new.progress_pct =
                    IF a[3] # None THEN Into0To100(Val(a[3])) ELSE old.progress_pct
               /\ new.current_page = IF a[4] # None THEN a[4] ELSE old.current_page
               /\ new.total_pages = IF a[5] # None THEN a[5] ELSE old.total_pages
               /\ new.status = old.status
               /\ new.started_at = old.started_at
               /\ new.finished_at = old.finished_at
               /\ new.last_milestone = old.last_milestone]_vars

\* C9 as amended: as claimed, except that an omitted percent is overwritten
\* with round(current_page / total_pages * 100) clamped to [0,100] when
\* current_page and a non-zero total_pages are both supplied.
C9_PartialUpdate ==
    [][(WasProgress' /\ ret'.err = "")
        => LET a   == ret'.args
               old == Val(get_user_book_link(DB, a[1], a[2]))
               new == Val(get_user_book_link(DB', a[1], a[2]))
           IN  /\ IF a[3] # None THEN new.progress_pct = Into0To100(Val(a[3]))
                  ELSE IF a[4] # None /\ a[5] # None /\ Val(a[5]) # 0
                  THEN NearestPct(new.progress_pct, Val(a[4]), Val(a[5]))
                  ELSE new.progress_pct = old.progress_pct
               /\ new.current_page = IF a[4] # None THEN a[4] ELSE old.current_page
               /\ new.total_pages = IF a[5] # None THEN a[5] ELSE old.total_pages
               /\ new.status = old.status
               /\ new.started_at = old.started_at
               /\ new.finished_at = old.finished_at
               /\ new.last_milestone = old.last_milestone]_vars

\* Only current_page was supplied: it was written, percent and total_pages kept
C9_Witness ==
    /\ WasProgress /\ ret.err = ""
    /\ ret.args = <<Caller, 1, None, Some(3), None>>
    /\ Val(Link(Caller, 1)).current_page = Some(3)
    /\ Val(Link(Caller, 1)).progress_pct = 60
    /\ Val(Link(Caller, 1)).total_pages = Some(MaxPage)

-----------------------------------------------------------------------------
(* Properties of the links and their timestamps *)

\* C2: there is at most one link row per (user, book) pair; add_book_to_user
\* inserts a row and returns created = TRUE on the first call for a pair, and
\* on every later call updates that row in place and returns created = FALSE.
C2_OneLinkPerPair ==
    /\ [](\A i, j \in 1..Len(user_books) :
             (/\ user_books[i].user_id = user_books[j].user_id
              /\ user_books[i].book_id = user_books[j].book_id) => i = j)
    /\ [][(ret'.op = "add_book_to_user" /\ ret'.err = "")
           => LET had == {i \in 1..Len(user_books) :
                            /\ user_books[i].user_id = ret'.val[1]
                            /\ user_books[i].book_id = ret'.val[2]}
                  has == {i \in 1..Len(user_books') :
                            /\ user_books'[i].user_id = ret'.val[1]
                            /\ user_books'[i].book_id = ret'.val[2]}
              IN  /\ ret'.val[3] = (had = {})
                  /\ Cardinality(has) = 1
                  /\ had # {} => has = had /\ Len(user_books') = Len(user_books)
                  /\ had = {} => Len(user_books') = Len(user_books) + 1
                  /\ \A i \in 1..Len(user_books) : i \notin had => user_books'[i] = user_books[i]
                  /\ \A i \in had : /\ user_books'[i].created_at = user_books[i].created_at
                                    /\ user_books'[i].progress_pct = ret'.args[4]]_vars

\* The second member re-added a book under its hand-typed title: the one row
\* of that pair was updated in place and created is FALSE
C2_Witness ==
    /\ ret.op = "add_book_to_user" /\ ret.err = ""
    /\ ret.args[1] = Stranger /\ ret.args[2] = " dune " /\ ret.args[4] = 60
    /\ ret.val[3] = FALSE
    /\ Len(user_books) = 3
    /\ Val(Link(Stranger, ret.val[2])).progress_pct = 60

\* C3 as claimed: once a link's started_at (finished_at) is populated no later
\* store operation changes it.
C3_Original ==
    [][\A i \in 1..Len(user_books) :
          /\ user_books[i].started_at # None
                => user_books'[i].started_at = user_books[i].started_at
          /\ user_books[i].finished_at # None
                => user_books'[i].finished_at = user_books[i].finished_at]_vars

\* C4: a successful update_user_book_status sets finished_at (started_at) to
\* the current time exactly when the new status is finished (reading) and that
\* timestamp is not yet set; otherwise, and so on every return to finished and
\* on every other status, both timestamps keep their values.
C4_StatusStamps ==
    [][(ret'.op = "update_user_book_status" /\ ret'.err = "")
        => LET a   == ret'.args
               old == Val(get_user_book_link(DB, a[1], a[2]))
               new == Val(get_user_book_link(DB', a[1], a[2]))
           IN  /\ new.finished_at =
                    IF new.status = STATUS_FINISHED /\ old.finished_at = None
                    THEN Some(now) ELSE old.finished_at
               /\ new.started_at =
                    IF new.status = STATUS_READING /\ old.started_at = None
                    THEN Some(now) ELSE old.started_at]_vars

\* The link was set to finished again at a later second than its finished_at
C4_Witness ==
    /\ ret.op = "update_user_book_status" /\ ret.err = ""
    /\ Link(Caller, 1) # None
    /\ Val(Link(Caller, 1)).status = STATUS_FINISHED
    /\ Val(Link(Caller, 1)).updated_at = now
    /\ Val(Link(Caller, 1)).finished_at # None
    /\ Val(Val(Link(Caller, 1)).finished_at) < now
    /\ Val(Link(Caller, 1)).started_at = None

\* C10: update_user_book_progress with a percent p of 0..100, whatever page
\* arguments accompany it, then a read of the link returns percent p.
C10_RoundTrip ==
    (/\ WasProgress /\ ret.err = ""
     /\ ret.args[3] # None /\ Val(ret.args[3]) \in 0..100)
        => /\ Link(ret.args[1], ret.args[2]) # None
           /\ Val(Link(ret.args[1], ret.args[2])).progress_pct = Val(ret.args[3])

\* Percent 0 was written together with page arguments over a stored percent
C10_Witness ==
    /\ WasProgress /\ ret.err = ""
    /\ ret.args = <<Caller, 1, Some(0), Some(3), Some(MaxPage)>>
    /\ Val(Link(Caller, 1)).progress_pct = 0

-----------------------------------------------------------------------------
(* Properties of the milestones *)

\* C6: for a link with stored last value L and percent p the crossed list is
\* exactly the thresholds t of 25, 50, 75, 100 with L < t <= p; when it is
\* empty nothing is announced and nothing stored changes, otherwise
\* last_milestone becomes the largest crossed threshold, which is the one
\* announced (L = 0, p = 60 gives 25, 50 and new last 50; L = 50, p = 50
\* gives nothing).
C6_MilestoneCrossing ==
    [][(/\ ret'.op = "announce_milestone_if_crossed"
        /\ get_user_book_link(DB, ret'.args[1], ret'.args[2]) # None)
        => LET a   == ret'.args
               old == Val(get_user_book_link(DB, a[1], a[2]))
               new == Val(get_user_book_link(DB', a[1], a[2]))
               L   == old.last_milestone
               p   == old.progress_pct
               T   == {t \in {25, 50, 75, 100} : L < t /\ t <= p}
           IN  /\ Range(ret'.val[1]) = T
               /\ (L = 0 /\ p = 60) => ret'.val[1] = <<25, 50>> /\ new.last_milestone = 50
               /\ (L = 50 /\ p = 50) => ret'.val[1] = <<>>
               /\ T = {} => /\ UNCHANGED <<users, books, user_books, sent>>
                            /\ ret'.val[2] = None
               /\ T # {} => /\ new.last_milestone \in T
                            /\ \A t \in T : t <= new.last_milestone
                            /\ sent' \in {sent, Append(sent, <<a[1], a[2], new.last_milestone>>)}
                            /\ a[3] => sent' # sent]_vars

\* At 60 percent with nothing recorded, 25 and 50 were crossed and 50 stored
\* and announced
C6_Witness ==
    /\ ret.op = "announce_milestone_if_crossed"
    /\ ret.val = <<<<25, 50>>, Some(<<Caller, 1, 50>>)>>
    /\ Val(Link(Caller, 1)).progress_pct = 60
    /\ Val(Link(Caller, 1)).last_milestone = 50
    /\ sent = <<<<Caller, 1, 50>>>>

-----------------------------------------------------------------------------
(* Properties of the commands *)

\* C5: over any sequence of the commands progress, finish, addbook and
\* startbook, the stored last_milestone of every link never decreases, also
\* when the percent is lowered afterwards or the book is added again.
C5_MilestoneNeverDecreases ==
    [][\A i \in 1..Len(user_books) :
          /\ i <= Len(user_books')
          /\ user_books'[i].last_milestone >= user_books[i].last_milestone]_vars

\* A book finished and announced at 100, added again and taken to 10 percent:
\* its last_milestone is still 100
C5_Witness ==
    /\ Link(Caller, 1) # None
    /\ Val(Link(Caller, 1)).status = STATUS_READING
    /\ Val(Link(Caller, 1)).progress_pct = 10
    /\ Val(Link(Caller, 1)).last_milestone = 100
    /\ sent # <<>>

-----------------------------------------------------------------------------
(* Properties of the books table, checked under SpecBooks *)

\* The step is a call of add_or_get_book
IsBookCall == ret'.op = "add_or_get_book"

\* NULL read as the empty string
TextOf(x) == IF x = None THEN "" ELSE Val(x)

\* Row i of books carries the title and author of the call (title, author),
\* both trimmed, letter case ignored, an absent author being the empty one
SameName(i, title, author) ==
    /\ lower(books[i].title) = lower(strip(title))
    /\ lower(TextOf(books[i].author)) = lower(strip(TextOf(author)))

\* The step returned row i and inserted nothing
Returned(i) ==
    /\ ret'.err = ""
    /\ ret'.val = <<i>>
    /\ books' = books

\* The step inserted exactly one row, returned its id, and left the rows
\* there were alone
InsertedOne ==
    /\ ret'.err = ""
    /\ Len(books') = Len(books) + 1
    /\ SubSeq(books', 1, Len(books)) = books
    /\ ret'.val = <<Len(books')>>

\* C11 (as stated): two calls of add_or_get_book with the same non-empty
\* catalog id, whatever their other arguments, return the same id, and the
\* second inserts no row.
C11_Original ==
    [][(/\ ret.op = "add_or_get_book" /\ ret.err = ""
        /\ IsBookCall
        /\ TruthyStr(ret.args[3]) /\ ret'.args[3] = ret.args[3])
       => (ret'.err = "" /\ ret'.val = ret.val /\ books' = books)]_vars

\* C12 (as stated): add_or_get_book returns the row of the same catalog id if
\* there is one, else the row of the same ISBN-13 if there is one, else a row
\* of the same (title, author); only if none matches it inserts exactly one
\* row and returns its id.
C12_Original ==
    [][IsBookCall =>
        LET a   == ret'.args
            vol == {i \in 1..Len(books) : a[3] # None /\ books[i].google_volume_id = a[3]}
            isb == {i \in 1..Len(books) : a[4] # None /\ books[i].isbn13 = a[4]}
            nam == {i \in 1..Len(books) : SameName(i, a[1], a[2])}
        IN  IF vol # {} THEN \E i \in vol : Returned(i)
            ELSE IF isb # {} THEN \E i \in isb : Returned(i)
            ELSE IF nam # {} THEN \E i \in nam : Returned(i)
            ELSE InsertedOne]_vars

\* C12, as the code has it: add_or_get_book returns the row of the same
\* non-empty catalog id if there is one, else the row of the same non-empty
\* ISBN-13 if there is one, else the row of the same (title, author); if none
\* matches it inserts exactly one row, of its trimmed arguments, and returns
\* its id, unless the catalog id or the ISBN-13 is the empty string and a row
\* with the empty string there exists: then it fails on the UNIQUE constraint
\* and inserts nothing.
C12_DedupePriority ==
    [][IsBookCall =>
        LET a   == ret'.args
            vol == {i \in 1..Len(books) : TruthyStr(a[3]) /\ books[i].google_volume_id = a[3]}
            isb == {i \in 1..Len(books) : TruthyStr(a[4]) /\ books[i].isbn13 = a[4]}
            nam == {i \in 1..Len(books) : SameName(i, a[1], a[2])}
            dup == {i \in 1..Len(books) :
                        \/ a[3] = Some("") /\ books[i].google_volume_id = a[3]
                        \/ a[4] = Some("") /\ books[i].isbn13 = a[4]}
        IN  IF vol # {} THEN \E i \in vol : Returned(i)
            ELSE IF isb # {} THEN \E i \in isb : Returned(i)
            ELSE IF nam # {} THEN \E i \in nam : Returned(i)
            ELSE IF dup # {} THEN ret'.err = IntegrityError /\ books' = books
            ELSE /\ InsertedOne
                 /\ books'[Len(books')].title = strip(a[1])
                 /\ books'[Len(books')].author =
                        (IF TruthyStr(a[2]) THEN Some(strip(Val(a[2]))) ELSE None)
                 /\ books'[Len(books')].google_volume_id = a[3]
                 /\ books'[Len(books')].isbn13 = a[4]]_vars

\* A call whose catalog id, ISBN-13 and name each match a different row
\* returned the row of the catalog id
C12_Witness ==
    /\ ret.op = "add_or_get_book"
    /\ ret.args = <<"Emma", None, Some("g1"), Some("i1")>>
    /\ Len(books) = 3
    /\ books[2].google_volume_id = Some("g1")
    /\ books[1].isbn13 = Some("i1")
    /\ books[3].title = "Emma"
    /\ books[3].author = None
    /\ ret.val = <<2>>

-----------------------------------------------------------------------------
(* Properties of the users table, checked under SpecUsers *)

\* C13 (as stated): upsert_user never makes a second row of an external id and
\* returns the id the external id already had; on an existing user the display
\* name is replaced only by a non-empty value, and is kept when the value
\* supplied is absent or the empty string.
C13_Original ==
    [][ret'.op = "upsert_user" =>
        LET uid == ret'.args[1]
            dn  == ret'.args[2]
            old == get_user(DB, uid)
        IN  /\ Cardinality({i \in 1..Len(users') : users'[i].discord_user_id = uid}) = 1
            /\ old # None =>
                  /\ ret'.val = <<Val(old)>>
                  /\ Len(users') = Len(users)
                  /\ users'[Val(old)].display_name =
                        (IF TruthyStr(dn) THEN dn ELSE users[Val(old)].display_name)]_vars

-----------------------------------------------------------------------------
(* Properties of list_user_books, checked under SpecList *)

\* The step is a call of list_user_books
IsListCall == ret'.op = "list_user_books"

\* The store has a user of this Discord id
KnownUser(uid) == \E i \in 1..Len(users) : users[i].discord_user_id = uid

\* C14 (as stated): list_user_books fails with InvalidStatus whenever the
\* filter given (a non-empty string, read trimmed and in lower case) is not
\* one of the five statuses, whether or not the user exists; with a valid or
\* absent filter and an unknown user it returns the empty sequence without
\* error.
C14_Original ==
    [][IsListCall =>
        LET uid    == ret'.args[1]
            status == ret'.args[2]
        IN  IF TruthyStr(status) /\ lower(strip(Val(status))) \notin ALLOWED_STATUSES
            THEN ret'.err = InvalidStatus
            ELSE ~KnownUser(uid) => ret'.err = "" /\ ret'.val = <<>>]_vars

\* C14 (corrected): for an unknown user list_user_books returns the empty
\* sequence without error whatever the filter; for a known user it fails with
\* InvalidStatus exactly when the filter is a non-empty string that, trimmed
\* and in lower case, is not one of the five statuses, and otherwise returns
\* the books of the user's links, of that status if a filter is given.  It
\* writes nothing.
C14_ListErrors ==
    [][IsListCall =>
        LET uid    == ret'.args[1]
            status == ret'.args[2]
            st     == lower(strip(Val(status)))
            bad    == TruthyStr(status) /\ st \notin ALLOWED_STATUSES
            mine   == {i \in 1..Len(user_books) :
                          /\ users[user_books[i].user_id].discord_user_id = uid
                          /\ TruthyStr(status) => user_books[i].status = st}
        IN  /\ UNCHANGED <<users, books, user_books>>
            /\ ~KnownUser(uid) => ret'.err = "" /\ ret'.val = <<>>
            /\ KnownUser(uid) /\ bad => ret'.err = InvalidStatus
            /\ KnownUser(uid) /\ ~bad =>
                  /\ ret'.err = ""
                  /\ Len(ret'.val) = Cardinality(mine)
                  /\ Range(ret'.val) = {user_books[i].book_id : i \in mine}]_vars

\* A user the store has never seen listed books under a status outside the
\* enum, in a store that holds another user's links, and got the empty
\* sequence
C14_Witness ==
    /\ ret.op = "list_user_books"
    /\ ret.args[1] = Stranger
    /\ ret.args[2] = Some("bogus")
    /\ ret.err = ""
    /\ ret.val = <<>>
    /\ Len(user_books) = 3

-----------------------------------------------------------------------------
(* Properties of book resolution, checked under SpecResolve *)

\* The step is a call of resolve_reading_book_id
IsResolve == ret'.op = "resolve_reading_book_id"

\* The scope of a resolution: the rows of the reading links of the user
Scope(uid) ==
    {i \in 1..Len(user_books) :
        /\ users[user_books[i].user_id].discord_user_id = uid
        /\ user_books[i].status = STATUS_READING}

\* Row j comes before row k in the order most-recently-updated first, rows of
\* equal updated_at in the order tie
Before(j, k, tie) ==
    \/ user_books[j].updated_at > user_books[k].updated_at
    \/ /\ user_books[j].updated_at = user_books[k].updated_at
       /\ IF tie = "rowid_asc" THEN j < k ELSE j > k

\* The place of row r in the scope S, counted from 1
Rank(S, r, tie) == 1 + Cardinality({k \in S : Before(k, r, tie)})

\* The first row of a non-empty subset M of the scope, in scope order
FirstOf(M, tie) == CHOOSE r \in M : \A k \in M \ {r} : Before(r, k, tie)

\* The token of the step, trimmed, and whether it is a number
Token == strip(Val(ret'.args[2]))
IsIndex == ret'.args[2] # None /\ ret'.args[2] # Some("") /\ isdigit(Token)
IsTitle == ret'.args[2] # None /\ ret'.args[2] # Some("") /\ ~isdigit(Token)

\* The titles the books of SpecResolve are stored under and the tokens its
\* resolutions are given, each trimmed and in lower case
TitleKey == [t \in {"Dune", "Dune Messiah", "Emma"} |-> lower(strip(t))]
TokenKey == [w \in {Val(x) : x \in WhichArgs \ {None}} |-> lower(strip(w))]

\* The rows of S whose title is the token, and those whose title contains it,
\* letter case ignored
Exact(S) ==
    {r \in S : TitleKey[books[user_books[r].book_id].title] = TokenKey[Val(ret'.args[2])]}
Partial(S) ==
    {r \in S : Contains(TitleKey[books[user_books[r].book_id].title], TokenKey[Val(ret'.args[2])])}

\* C15: with a number i as token and more than one reading link, resolution
\* returns the link that has i-1 reading links before it in the order
\* most-recently-updated first, which is the i-th book of the list shown to
\* the user; a number outside 1..len(scope) yields no book.
C15_IndexIntoScope ==
    [][IsResolve /\ IsIndex /\ Cardinality(Scope(ret'.args[1])) > 1 =>
        LET uid   == ret'.args[1]
            tie   == ret'.args[3]
            S     == Scope(uid)
            i     == Val(int(Token))
            shown == BookIdsOf(list_user_books(DB, uid, Some(STATUS_READING), 200, tie).val)
        IN  IF i \in 1..Cardinality(S)
            THEN /\ \E r \in S : Rank(S, r, tie) = i /\ ret'.val = Some(user_books[r].book_id)
                 /\ ret'.val = Some(shown[i])
            ELSE ret'.val = None]_vars

\* The token 02 picked the book that is second in the reading list, which is
\* the book of the first link, the other link being the more recently updated
C15_Witness ==
    /\ ret.op = "resolve_reading_book_id"
    /\ ret.args[1] = Caller
    /\ ret.args[2] = Some(" 02 ")
    /\ Scope(Caller) = {1, 2}
    /\ user_books[2].updated_at > user_books[1].updated_at
    /\ ret.val = Some(user_books[1].book_id)

\* C16: with exactly one reading link resolution returns that link for every
\* token, and with none it returns no book for every token.
C16_SingleOrEmptyScope ==
    [][IsResolve =>
        LET S == Scope(ret'.args[1])
        IN  /\ Cardinality(S) = 1 => \A r \in S : ret'.val = Some(user_books[r].book_id)
            /\ S = {} => ret'.val = None]_vars

\* The title of a finished book, given while one book is being read, picked
\* the book being read
C16_Witness ==
    /\ ret.op = "resolve_reading_book_id"
    /\ ret.args[1] = Caller
    /\ ret.args[2] = Some("emma")
    /\ Cardinality(Scope(Caller)) = 1
    /\ Len(user_books) = 2
    /\ \E r \in Scope(Caller) : ret.val = Some(user_books[r].book_id)

\* C17: with a token that is not a number and more than one reading link,
\* resolution returns the first link in scope order whose title is the token,
\* letter case ignored; only if there is none, the first whose title contains
\* the token.
C17_ExactThenSubstring ==
    [][IsResolve /\ IsTitle /\ Cardinality(Scope(ret'.args[1])) > 1 =>
        LET S   == Scope(ret'.args[1])
            tie == ret'.args[3]
            E   == Exact(S)
            P   == Partial(S)
        IN  IF E # {}
            THEN \E r \in {FirstOf(E, tie)} : ret'.val = Some(user_books[r].book_id)
            ELSE P # {} =>
                    \E r \in {FirstOf(P, tie)} : ret'.val = Some(user_books[r].book_id)]_vars

\* The token DUNE picked Dune although Dune Messiah, which contains it, comes
\* first in the reading list
C17_Witness ==
    /\ ret.op = "resolve_reading_book_id"
    /\ ret.args[1] = Caller
    /\ ret.args[2] = Some(" DUNE ")
    /\ \E r, k \in Scope(Caller) :
          /\ books[user_books[r].book_id].title = "Dune"
          /\ books[user_books[k].book_id].title = "Dune Messiah"
          /\ user_books[k].updated_at > user_books[r].updated_at
          /\ ret.val = Some(user_books[r].book_id)

\* The links of the user, of any status, whose title contains the token
Broad(uid) ==
    {r \in 1..Len(user_books) :
        /\ users[user_books[r].user_id].discord_user_id = uid
        /\ Contains(TitleKey[books[user_books[r].book_id].title], TokenKey[Val(ret'.args[2])])}

\* C18 (as stated): with a token that is not a number and matches no title in
\* the reading scope, resolution returns a link of the user of any status
\* whose title contains the token, and no book only if there is none.
C18_Original ==
    [][(/\ IsResolve /\ IsTitle /\ Cardinality(Scope(ret'.args[1])) > 1
        /\ Partial(Scope(ret'.args[1])) = {})
       => IF Broad(ret'.args[1]) # {}
          THEN \E r \in Broad(ret'.args[1]) : ret'.val = Some(user_books[r].book_id)
          ELSE ret'.val = None]_vars

\* C18 (corrected): with a token that is not a number and matches no title in
\* a reading scope of more than one link, resolution returns no book, whether
\* or not a link of another status has a title that contains the token.
C18_NoBroadening ==
    [][(/\ IsResolve /\ IsTitle /\ Cardinality(Scope(ret'.args[1])) > 1
        /\ Partial(Scope(ret'.args[1])) = {})
       => ret'.val = None]_vars

\* The title of a finished book of the user, given while two other books are
\* being read, resolved to no book
C18_Witness ==
    /\ ret.op = "resolve_reading_book_id"
    /\ ret.args[1] = Caller
    /\ ret.args[2] = Some("emma")
    /\ Cardinality(Scope(Caller)) = 2
    /\ \E r \in 1..Len(user_books) :
          /\ user_books[r].status = STATUS_FINISHED
          /\ books[user_books[r].book_id].title = "Emma"
    /\ ret.val = None

-----------------------------------------------------------------------------
(* Properties of the percent derived from pages, checked under SpecRatio *)

\* C19: for every pair (current, total) with total > 0 the percent that
\* parse_progress_value returns for the token current/total, and the percent
\* that update_user_book_progress stores when it is given the two pages and no
\* percent, is an integer nearest to current / total * 100 brought into
\* [0,100]; (120, 500) gives 24; a token whose total is <= 0 raises ValueError.
C19_DerivedPercent ==
    /\ ret.op = "parse_progress_value" =>
          IF ret.args[3] <= 0
          THEN ret.err = ValueError
          ELSE /\ ret.err = ""
               /\ ret.val.current_page = Some(ret.args[2])
               /\ ret.val.total_pages = Some(ret.args[3])
               /\ ret.val.progress_pct # None
               /\ NearestPct(Val(ret.val.progress_pct), ret.args[2], ret.args[3])
               /\ ret.args[1] = "120/500" => ret.val.progress_pct = Some(24)
    /\ (/\ WasProgress /\ Link(Caller, 1) # None
        /\ ret.args[3] = None /\ ret.args[4] # None /\ TruthyInt(ret.args[5])
        /\ Val(ret.args[5]) > 0)
         => /\ ret.err = ""
            /\ NearestPct(Val(Link(Caller, 1)).progress_pct, Val(ret.args[4]), Val(ret.args[5]))
            /\ ret.args[4] = Some(120) /\ ret.args[5] = Some(500) =>
                  Val(Link(Caller, 1)).progress_pct = 24

\* The pair (120, 500) was passed to update_user_book_progress without a
\* percent and the link now reads 24 percent
C19_Witness ==
    /\ WasProgress /\ ret.err = ""
    /\ ret.args = <<Caller, 1, None, Some(120), Some(500)>>
    /\ Val(Link(Caller, 1)).progress_pct = 24
    /\ Val(Link(Caller, 1)).current_page = Some(120)

-----------------------------------------------------------------------------
(* Properties of a percent reported with progress, checked under SpecPercent *)

\* The link of (uid, book_id) as the step leaves it
LinkAfter(uid, book_id) ==
    get_user_book_link([users |-> users', books |-> books', user_books |-> user_books'],
                       uid, book_id)

\* The number a percent token stands for
TokenPercent(value) ==
    CASE value = "60%" -> 60
      [] value = " 150 %" -> 150
      [] value = "-5%" -> 0 - 5
      [] value = "35%" -> 35

\* cp is an integer nearest to p percent of tp pages
NearestPage(cp, p, tp) ==
    LET e == 100 * cp - p * tp
    IN  2 * (IF e < 0 THEN 0 - e ELSE e) <= 100

\* C20: progress with a percent token stores the token brought into [0,100]
\* as the percent.  If the link has a total page count (one that is not 0)
\* the same write sets the current page to the page nearest to that percent
\* of the total; if the link has none, progress asks for the total pages and
\* then writes the percent alone, and if the total is 0 it writes the percent
\* alone at once; neither changes current_page.  total_pages is left as it
\* was in every case.
C20_PercentReconciliation ==
    [][/\ (ret'.op = "progress" /\ Link(Caller, 1) # None) =>
            LET old == Val(Link(Caller, 1))
                new == Val(LinkAfter(Caller, 1))
                p   == Into0To100(TokenPercent(ret'.args[2]))
            IN  /\ new.total_pages = old.total_pages
                /\ IF TruthyInt(old.total_pages)
                   THEN /\ ret'.val[1] = "progress updated"
                        /\ new.progress_pct = p
                        /\ new.current_page # None
                        /\ NearestPage(Val(new.current_page), p, Val(old.total_pages))
                   ELSE IF old.total_pages = None
                   THEN /\ ret'.val[1] = "need total pages"
                        /\ user_books' = user_books
                        /\ pending' = pending (+) SetToBag({Cont("progress_store", Caller, 1, p, "", None)})
                   ELSE /\ ret'.val[1] = "progress updated"
                        /\ new.progress_pct = p
                        /\ new.current_page = old.current_page
       /\ (ret'.op = "progress_store" /\ Link(Caller, 1) # None) =>
            LET old == Val(Link(Caller, 1))
                new == Val(LinkAfter(Caller, 1))
            IN  /\ new.progress_pct = ret'.args[3]
                /\ new.current_page = old.current_page
                /\ new.total_pages = old.total_pages]_vars

\* A token of 150 percent on a book of MaxPage pages that stood at another
\* percent left the link at 100 percent and on its last page
C20_Witness ==
    /\ ret.op = "progress"
    /\ ret.args[2] = " 150 %"
    /\ ret.val[1] = "progress updated"
    /\ Val(Link(Caller, 1)).progress_pct = 100
    /\ Val(Link(Caller, 1)).current_page = Some(MaxPage)
    /\ Val(Link(Caller, 1)).total_pages = Some(MaxPage)
    /\ Val(Link(Caller, 1)).last_milestone = 50


-----------------------------------------------------------------------------
(* Properties of a page reported with progress, checked under SpecPage *)

\* The number a bare page token stands for
TokenPage ==
    [value \in PageTokens |-> Val(int(value))]

\* C21: progress with a bare page number n sets current_page to n.  If the
\* link has a total page count (one that is not 0) the same write sets the
\* percent to an integer nearest to n / total * 100 brought into [0,100]; if
\* it has none the percent keeps the value stored before.  total_pages is left
\* as it was.
C21_BarePage ==
    [][(/\ ret'.op = "progress" /\ ret'.args[2] \in PageTokens
        /\ Link(Caller, 1) # None) =>
            LET old == Val(Link(Caller, 1))
                new == Val(LinkAfter(Caller, 1))
                n   == TokenPage[ret'.args[2]]
            IN  /\ ret'.err = ""
                /\ ret'.val[1] = "progress updated"
                /\ new.current_page = Some(n)
                /\ new.total_pages = old.total_pages
                /\ IF TruthyInt(old.total_pages)
                   THEN NearestPct(new.progress_pct, n, Val(old.total_pages))
                   ELSE new.progress_pct = old.progress_pct]_vars

\* Page 3 reported on a book without a total that stood at 60 percent: the
\* page is stored and the percent is still 60
C21_Witness ==
    /\ ret.op = "progress"
    /\ ret.args[2] = "3"
    /\ ret.val[1] = "progress updated"
    /\ Val(Link(Caller, 1)).total_pages = None
    /\ Val(Link(Caller, 1)).current_page = Some(3)
    /\ Val(Link(Caller, 1)).progress_pct = 60

-----------------------------------------------------------------------------
(* Properties of the profile summary, checked under SpecProfile *)

\* The user_books rows of the user with this Discord id
LinksOf(uid) ==
    {i \in 1..Len(user_books) :
        /\ user_books[i].user_id \in 1..Len(users)
        /\ users[user_books[i].user_id].discord_user_id = uid}

\* C22: get_user_profile_summary for a user the store knows returns a count
\* for each of the five statuses and for nothing else; each count is the
\* number of that user's links now in that status, 0 if there is none, so
\* the five counts add up to the number of the user's links.  For a user the
\* store does not know it returns exists = false and no counts.
C22_ProfileCounts ==
    ret.op = "get_user_profile_summary" =>
        LET uid == ret.args[1]
        IN  IF KnownUser(uid)
            THEN /\ ret.val.exists
                 /\ ret.val.counts # None
                 /\ DOMAIN Val(ret.val.counts) = ALLOWED_STATUSES
                 /\ \A s \in ALLOWED_STATUSES :
                       Val(ret.val.counts)[s] =
                          Cardinality({i \in LinksOf(uid) : user_books[i].status = s})
                 /\ Val(ret.val.counts)[STATUS_PLAN] + Val(ret.val.counts)[STATUS_READING]
                      + Val(ret.val.counts)[STATUS_FINISHED] + Val(ret.val.counts)[STATUS_DNF]
                      + Val(ret.val.counts)[STATUS_PAUSED] = Cardinality(LinksOf(uid))
            ELSE /\ ~ret.val.exists
                 /\ ret.val.counts = None

\* The member has three links, two of them paused and none finished, while
\* the other member has a link of their own: the summary counts 2 paused, 0
\* finished and 1 to read
C22_Witness ==
    /\ ret.op = "get_user_profile_summary"
    /\ ret.args[1] = Caller
    /\ Cardinality(LinksOf(Caller)) = 3
    /\ LinksOf(Stranger) # {}
    /\ Val(ret.val.counts)[STATUS_PAUSED] = 2
    /\ Val(ret.val.counts)[STATUS_FINISHED] = 0
    /\ Val(ret.val.counts)[STATUS_PLAN] = 1

-----------------------------------------------------------------------------
(* Properties of the calls that end in an error, checked under SpecErrors *)

\* The last step was a call of the store
IsStoreCall ==
    ret'.op \in {"add_book_to_user", "update_user_book_status", "update_user_book_progress"}

\* C23 (as stated): every call of the store that ends in an error leaves
\* users, books and user_books exactly as they were before the call.
C23_Original ==
    [][(IsStoreCall /\ ret'.err # "") => UNCHANGED <<users, books, user_books>>]_vars

\* C23, for the errors the store raises itself: a call that ends in
\* InvalidStatus, UserNotFound, NotLinked or InvalidInput leaves users, books
\* and user_books exactly as they were before the call.
C23_RaisedBeforeAnyWrite ==
    [][(IsStoreCall /\ ret'.err \in {InvalidStatus, UserNotFound, NotLinked, InvalidInput})
          => UNCHANGED <<users, books, user_books>>]_vars

\* add_book_to_user was refused for its status by a store that holds a link,
\* and the user it named has no row
C23_Witness ==
    /\ ret.op = "add_book_to_user"
    /\ ret.err = InvalidStatus
    /\ ret.args[1] = Stranger
    /\ ~KnownUser(Stranger)
    /\ Len(user_books) = 1

-----------------------------------------------------------------------------
(* Properties of a failed catalog search, checked under SpecSearch *)

\* The last step was a searchbook or a startbook resuming from a
\* google_books_search that raised
SearchFailed ==
    \/ ret.op = "searchbook_reply" /\ ret.args[3] = Failed
    \/ ret.op = "startbook_reply" /\ ret.args[4] = Failed

\* C24 (as stated): when google_books_search fails, searchbook and startbook
\* go on as they do when it finds nothing: no exception leaves the handler,
\* and the member gets the reply of a search without results.
C24_Original ==
    SearchFailed =>
        /\ ret.err = ""
        /\ ret.val # <<>>
        /\ ret.val[1] \in {"no results found", "no google books results",
                            "created manually", "already existed"}

\* C24, as the code has it: when google_books_search fails, the exception
\* leaves searchbook or startbook unhandled and no reply is sent; the search
\* is not made again, and the store and the cache of search results are
\* left as they were.
C24_FailurePropagates ==
    [][(\/ ret'.op = "searchbook_reply" /\ ret'.args[3] = Failed
        \/ ret'.op = "startbook_reply" /\ ret'.args[4] = Failed) =>
            /\ ret'.err = ClientError
            /\ ret'.val = <<>>
            /\ UNCHANGED <<users, books, user_books, LAST_SEARCH, sent>>
            /\ BagCardinality(pending') = BagCardinality(pending) - 1]_vars

\* A startbook with a page count resumed from a failed search while the
\* cache held an earlier find: the exception left the handler
C24_Witness ==
    /\ ret.op = "startbook_reply"
    /\ ret.args[3] = Some(8)
    /\ ret.args[4] = Failed
    /\ ret.err = ClientError
    /\ LAST_SEARCH[Caller] # <<>>

-----------------------------------------------------------------------------
(* Properties of interleaved commands, checked under SpecShelf *)

\* The Discord id of the user of the user_books row r
OwnerOf(r) == users[user_books[r].user_id].discord_user_id

\* C25: however the handlers interleave at their awaits, last_milestone of a
\* link is written only by the milestone check and each value it writes is a
\* threshold greater than the one stored before; a message is sent to the
\* channel only for the value the same step has just written.  So the
\* thresholds announced for one link are strictly increasing: none is
\* announced twice.
C25_MilestoneOncePerLink ==
    [][/\ \A r \in 1..Len(user_books) :
             user_books'[r].last_milestone # user_books[r].last_milestone =>
                /\ ret'.op \in {"announce_milestone_if_crossed", "progress_store"}
                /\ user_books'[r].last_milestone > user_books[r].last_milestone
                /\ user_books'[r].last_milestone \in Range(MILESTONES)
       /\ sent' # sent =>
             /\ sent' = Append(sent, sent'[Len(sent')])
             /\ \E r \in 1..Len(user_books) :
                   /\ sent'[Len(sent')] = <<OwnerOf(r), user_books[r].book_id,
                                            user_books'[r].last_milestone>>
                   /\ user_books[r].last_milestone < user_books'[r].last_milestone
       /\ \A i, j \in 1..Len(sent') :
             (i < j /\ sent'[i][1] = sent'[j][1] /\ sent'[i][2] = sent'[j][2])
                => sent'[i][3] < sent'[j][3]]_<<sent, user_books>>

\* Both books were announced, one of them twice: at 25 after a progress and
\* at 100 after a finish
C25_Witness ==
    /\ ret.op = "announce_milestone_if_crossed"
    /\ Len(sent) = 3
    /\ \E i, j \in 1..3 : i < j /\ sent[i][2] = sent[j][2] /\ sent[i][3] = 25 /\ sent[j][3] = 100
    /\ \E i, j \in 1..3 : sent[i][2] # sent[j][2]

\* The step changed the percent or the page of the user_books row r
ProgressWritten(r) ==
    \/ user_books'[r].progress_pct # user_books[r].progress_pct
    \/ user_books'[r].current_page # user_books[r].current_page

\* C26 (as stated): however progress and finish interleave at their awaits,
\* the link a progress command changes the percent or the page of has the
\* status reading at the moment of the write.
C26_Original ==
    [][\A r \in 1..Len(user_books) :
          (ret'.op \in {"progress", "progress_store"} /\ ProgressWritten(r))
             => user_books[r].status = STATUS_READING]_<<sent, user_books>>

\* C26, as the code has it: a progress that writes before its first await
\* writes to a link that has the status reading at that moment.  A progress
\* that reports a percent on a book without a total replies first and writes
\* after that await, to the book it resolved before it: the percent it was
\* given is stored whatever the status of the link has become, the status is
\* left as it is, and no other link is changed.  The last writer wins.
C26_LastWriterWins ==
    [][/\ \A r \in 1..Len(user_books) :
             (ret'.op = "progress" /\ ProgressWritten(r))
                => user_books[r].status = STATUS_READING
       /\ \A r \in 1..Len(user_books) :
             ret'.op = "progress_store" =>
                IF OwnerOf(r) = ret'.args[1] /\ user_books[r].book_id = ret'.args[2]
                THEN /\ user_books'[r].progress_pct = ret'.args[3]
                     /\ user_books'[r].status = user_books[r].status
                     /\ user_books'[r].current_page = user_books[r].current_page
                ELSE user_books'[r] = user_books[r]]_<<sent, user_books, pending>>

\* A progress of 30 percent that replied before a finish of the same book and
\* wrote after it: the link is finished and stands at 30 percent
C26_Witness ==
    /\ ret.op = "progress_store"
    /\ ret.args[3] = 30
    /\ \E r \in 1..Len(user_books) :
          /\ user_books[r].book_id = ret.args[2]
          /\ user_books[r].status = STATUS_FINISHED
          /\ user_books[r].finished_at # None
          /\ user_books[r].progress_pct = 30

-----------------------------------------------------------------------------
(* Properties of the books table as a whole, checked under SpecBooks *)

\* No two rows of the books table B have the same title and author (both as
\* stored, letter case ignored, an absent author being the empty one), the
\* same catalog id or the same ISBN-13
NoTwoAlike(B) ==
    \A i, j \in 1..Len(B) :
        i < j =>
           /\ ~(/\ lower(strip(B[i].title)) = lower(strip(B[j].title))
                /\ lower(TextOf(B[i].author)) = lower(TextOf(B[j].author)))
           /\ B[i].google_volume_id # None => B[i].google_volume_id # B[j].google_volume_id
           /\ B[i].isbn13 # None => B[i].isbn13 # B[j].isbn13

\* C27: after every call of add_or_get_book no two rows of books have the
\* same (trimmed title, author or empty) pair, letter case ignored, and no
\* two have the same catalog id or the same ISBN-13 where these are not NULL.
\* A call whose catalog id no row has, whose ISBN-13 no row has, and whose
\* title and author a row has returns that row and inserts nothing.
C27_NoDuplicateBooks ==
    [][IsBookCall =>
        LET a   == ret'.args
            vol == {i \in 1..Len(books) : books[i].google_volume_id = a[3]}
            isb == {i \in 1..Len(books) : books[i].isbn13 = a[4]}
            nam == {i \in 1..Len(books) : SameName(i, a[1], a[2])}
        IN  /\ NoTwoAlike(books')
            /\ (a[3] # None /\ vol = {} /\ isb = {} /\ nam # {})
                  => \E i \in nam : Returned(i)]_vars

\* Three books are stored, and a call with the title of one of them in other
\* letters and blanks, and a catalog id none of them has, returned that one
C27_Witness ==
    /\ ret.op = "add_or_get_book"
    /\ Len(books) = 3
    /\ ret.args[3] = Some("g1")
    /\ \A i \in 1..3 : books[i].google_volume_id # Some("g1")
    /\ ret.args[4] = None
    /\ \E i \in 1..3 :
          /\ books[i].title # strip(ret.args[1])
          /\ lower(books[i].title) = lower(strip(ret.args[1]))
          /\ ret.val = <<i>>

-----------------------------------------------------------------------------
(* Properties of what a write leaves alone, checked under SpecFrame *)

\* C28: update_user_book_progress, update_user_book_status and
\* set_last_milestone called for the pair (u, b) leave users and books as
\* they are, add and remove no link, and change no field of a link of another
\* pair.  set_last_milestone raises no error, and changes nothing when u has
\* no link to b or the store does not know u.
C28_OnlyTheLinkNamed ==
    [][ret'.op \in {"update_user_book_progress", "update_user_book_status", "set_last_milestone"} =>
          /\ users' = users
          /\ books' = books
          /\ Len(user_books') = Len(user_books)
          /\ \A r \in 1..Len(user_books) :
                ~(OwnerOf(r) = ret'.args[1] /\ user_books[r].book_id = ret'.args[2])
                   => user_books'[r] = user_books[r]
          /\ ret'.op = "set_last_milestone" =>
                /\ ret'.err = ""
                /\ (\A r \in 1..Len(user_books) :
                       ~(OwnerOf(r) = ret'.args[1] /\ user_books[r].book_id = ret'.args[2]))
                      => user_books' = user_books]_vars

\* Three links are stored and set_last_milestone has just written 50 to the
\* first member's link to the first book: the second member's link to that
\* book and the first member's link to the other book are still at 0
C28_Witness ==
    /\ ret.op = "set_last_milestone"
    /\ ret.args = <<Caller, 1, 50>>
    /\ Len(user_books) = 3
    /\ \E r \in 1..3 : OwnerOf(r) = Caller /\ user_books[r].book_id = 1
                        /\ user_books[r].last_milestone = 50
    /\ \E r \in 1..3 : OwnerOf(r) = Stranger /\ user_books[r].book_id = 1
                        /\ user_books[r].last_milestone = 0
    /\ \E r \in 1..3 : OwnerOf(r) = Caller /\ user_books[r].book_id = 2
                        /\ user_books[r].last_milestone = 0

-----------------------------------------------------------------------------
(* Properties of a book added again, checked under SpecCmd *)

\* The step is an addbook or a startbook that found the member's link to the
\* book already there
IsReadd ==
    \/ ret'.op = "addbook" /\ ret'.val # <<>> /\ ret'.val[1] = "already on your list"
    \/ ret'.op = "startbook_reply" /\ ret'.val # <<>> /\ ret'.val[1] = "already existed"

\* The total_pages the step passes to add_book_to_user
PagesSupplied ==
    IF ret'.op = "addbook" THEN LAST_SEARCH[ret'.args[1]][ret'.args[2]].page_count
    ELSE ret'.args[3]

\* C29: add_book_to_user on a link that exists, as addbook and startbook call
\* it, sets the status to reading and the percent to 0, leaves last_milestone
\* and current_page as they were, and leaves total_pages as it was unless it
\* is given one.  A milestone check on a link whose percent is not above its
\* last_milestone, as after such a re-add and progress up to it, records and
\* announces nothing.
C29_ReaddKeepsMilestone ==
    [][/\ IsReadd =>
            /\ Link(Caller, ret'.val[2][1]) # None
            /\ LET old == Val(Link(Caller, ret'.val[2][1]))
                   new == Val(LinkAfter(Caller, ret'.val[2][1]))
               IN  /\ new.status = STATUS_READING
                   /\ new.progress_pct = 0
                   /\ new.last_milestone = old.last_milestone
                   /\ new.current_page = old.current_page
                   /\ new.total_pages = COALESCE(PagesSupplied, old.total_pages)
       /\ (/\ ret'.op = "announce_milestone_if_crossed"
           /\ Link(ret'.args[1], ret'.args[2]) # None
           /\ Val(Link(ret'.args[1], ret'.args[2])).progress_pct
                 <= Val(Link(ret'.args[1], ret'.args[2])).last_milestone)
             => (sent' = sent /\ user_books' = user_books)]_<<user_books, sent, pending>>

\* addbook has just put a finished book that had been announced at 100
\* percent back on the reading list: percent 0, page and total as they were,
\* last_milestone still 100
C29_Witness ==
    /\ ret.op = "addbook"
    /\ ret.val[1] = "already on your list"
    /\ Val(Link(Caller, 1)).status = STATUS_READING
    /\ Val(Link(Caller, 1)).finished_at # None
    /\ Val(Link(Caller, 1)).progress_pct = 0
    /\ Val(Link(Caller, 1)).last_milestone = 100
    /\ Val(Link(Caller, 1)).current_page = Some(MaxPage)
    /\ Val(Link(Caller, 1)).total_pages = Some(MaxPage)
    /\ sent # <<>>

-----------------------------------------------------------------------------
(* Properties of finish, checked under SpecFinish *)

\* The rows of the reading links of the user as the step leaves them
ScopeAfter(uid) ==
    {i \in 1..Len(user_books') :
        /\ users'[user_books'[i].user_id].discord_user_id = uid
        /\ user_books'[i].status = STATUS_READING}

\* C30: a finish that resolves a book leaves its link finished, at 100
\* percent, with finished_at set and, if the link has a total page count (one
\* that is not 0), with a current page that is not below it; the reading scope
\* loses that link and no other.  The milestone check of a link that is
\* finished and at 100 percent leaves last_milestone at 100.  A resolution
\* returns only books of the reading scope, and with a number i and more than
\* one reading link the one that has i-1 reading links before it: the links
\* that are finished are not counted.
C30_FinishedLink ==
    [][/\ (ret'.op = "finish" /\ ret'.val # <<>> /\ ret'.val[1] = "marked as finished") =>
            LET b   == ret'.val[2][1]
                new == Val(LinkAfter(Caller, b))
            IN  /\ Link(Caller, b) # None
                /\ Val(Link(Caller, b)).status = STATUS_READING
                /\ new.status = STATUS_FINISHED
                /\ new.progress_pct = 100
                /\ new.finished_at # None
                /\ TruthyInt(new.total_pages) =>
                      (new.current_page # None /\ Val(new.current_page) >= Val(new.total_pages))
                /\ ScopeAfter(Caller) =
                      {r \in Scope(Caller) : user_books[r].book_id # b}
       /\ (/\ ret'.op = "announce_milestone_if_crossed"
           /\ Link(ret'.args[1], ret'.args[2]) # None
           /\ Val(Link(ret'.args[1], ret'.args[2])).status = STATUS_FINISHED
           /\ Val(Link(ret'.args[1], ret'.args[2])).progress_pct = 100)
             => Val(LinkAfter(ret'.args[1], ret'.args[2])).last_milestone = 100
       /\ IsResolve =>
            LET S == Scope(ret'.args[1])
                i == Val(int(Token))
            IN  /\ ret'.val # None => \E r \in S : ret'.val = Some(user_books[r].book_id)
                /\ (Cardinality(S) > 1 /\ i \in 1..Cardinality(S)) =>
                      \E r \in S : /\ Rank(S, r, ret'.args[3]) = i
                                   /\ ret'.val = Some(user_books[r].book_id)]_<<user_books, sent, pending, ret>>

\* Of three books the first is finished, at 100 percent, on its last page
\* and announced at 100, and the index 2 has just picked the third: the
\* second of the two that are left
C30_Witness ==
    /\ ret.op = "resolve_reading_book_id"
    /\ ret.args[2] = Some("2")
    /\ Len(user_books) = 3
    /\ user_books[1].status = STATUS_FINISHED
    /\ user_books[1].progress_pct = 100
    /\ user_books[1].finished_at # None
    /\ user_books[1].total_pages = Some(MaxPage)
    /\ user_books[1].current_page = Some(MaxPage)
    /\ user_books[1].last_milestone = 100
    /\ Scope(Caller) = {2, 3}
    /\ ret.val = Some(user_books[3].book_id)
====
